---- MODULE Spec2Model ----
(***************************************************************************)
(* Model of src/app.py, the Comprehensive Stock Check scoring script.      *)
(*                                                                         *)
(* Conventions                                                             *)
(*  - Scores are counted in HALF POINTS: 0 is 0, 1 is 0.5, 2 is 1.0, so    *)
(*    "scores[k] += 0.5" is "+ 1" and "scores[k] = 1.0" is "2".            *)
(*  - A Python/numpy number is a record [k, n, d]: k = "num" is the exact  *)
(*    rational n/d (d > 0), "nan" is float NaN, "inf" is a float infinity  *)
(*    of sign n, "none" is Python's None.  Arithmetic is exact; binary     *)
(*    rounding of float64 is not modelled.                                 *)
(*  - Python sequences are 0-based; At(s, i) reads s[i].                   *)
(*  - A JSON string is the sequence of its characters.                     *)
(*  - Display-only output (charts, st.metric, quarter date labels) is not  *)
(*    modelled; st.success/st.warning/st.error calls are kept in `ui`.     *)
(***************************************************************************)
EXTENDS Integers, Sequences, FiniteSets, TLC

VARIABLES
    \* ---- one script run of the Streamlit app (specification Spec) ----
    pc,             \* position of the script run
    runs,           \* completed script runs (bounded by MaxRuns)
    session,        \* st.session_state
    store,          \* contents of user_inputs.json ("nofile" domain empty)
    widgets,        \* values the widgets return in this run
    stock_df,       \* price history, or None
    error,          \* error of fetch_stock_data
    av_response,    \* the answer of Alpha Vantage to this run's request
    use_av, av_income, av_error,
    fund_data, fund_error,
    av_attempts,    \* HTTP requests sent to Alpha Vantage in this run
    stmt_fetches,   \* calls of fetch_fundamental_data in this run
    tech_scores, fund_scores, fund_details, fund_backing, remarks_scores,
    summary,        \* total score, percentage, rating
    ui,             \* st.success / st.warning / st.error calls of this run
    raised,         \* an exception escaped the script
    \* ---- direct calls of the pure functions (SpecScorers, SpecStage) ----
    call,           \* [fn, arg]: the function applied and its argument
    ret             \* its result

runVars == <<pc, runs, session, store, widgets, stock_df, error, av_response, use_av,
             av_income, av_error, fund_data, fund_error, av_attempts,
             stmt_fetches, tech_scores, fund_scores, fund_details,
             fund_backing, remarks_scores, summary, ui, raised>>
callVars == <<call, ret>>
vars == <<runVars, callVars>>

----------------------------------------------------------------------------
(* Python / numpy numbers *)

None == [k |-> "none", n |-> 0, d |-> 1]
NaN == [k |-> "nan", n |-> 0, d |-> 1]
Num(x) == [k |-> "num", n |-> x, d |-> 1]
Rat(x, y) == [k |-> "num", n |-> x, d |-> y]
Inf(s) == [k |-> "inf", n |-> s, d |-> 1]

Sign(x) == IF x > 0 THEN 1 ELSE IF x < 0 THEN -1 ELSE 0
AbsInt(x) == IF x < 0 THEN -x ELSE x

\* pd.isna(x)
isna(x) == x.k \in {"nan", "none"}

\* x != 0 (True for NaN)
Ne0(x) == ~(x.k = "num" /\ x.n = 0)

\* a - b
Sub(a, b) ==
    IF a.k = "nan" \/ b.k = "nan" THEN NaN
    ELSE IF a.k = "inf" THEN (IF b.k = "inf" /\ b.n = a.n THEN NaN ELSE a)
    ELSE IF b.k = "inf" THEN Inf(-b.n)
    ELSE Rat(a.n * b.d - b.n * a.d, a.d * b.d)

\* a + b
Add(a, b) ==
    IF a.k = "nan" \/ b.k = "nan" THEN NaN
    ELSE IF a.k = "inf" THEN (IF b.k = "inf" /\ b.n # a.n THEN NaN ELSE a)
    ELSE IF b.k = "inf" THEN b
    ELSE Rat(a.n * b.d + b.n * a.d, a.d * b.d)

\* a * b
Mul(a, b) ==
    IF a.k = "nan" \/ b.k = "nan" THEN NaN
    ELSE IF a.k = "inf" \/ b.k = "inf"
         THEN (IF Sign(a.n) * Sign(b.n) = 0 THEN NaN ELSE Inf(Sign(a.n) * Sign(b.n)))
    ELSE Rat(a.n * b.n, a.d * b.d)

\* a / b on numpy float64: division by zero gives inf or nan, no exception
Div(a, b) ==
    IF a.k = "nan" \/ b.k = "nan" THEN NaN
    ELSE IF b.k = "inf" THEN (IF a.k = "inf" THEN NaN ELSE Num(0))
    ELSE IF a.k = "inf" THEN (IF b.n = 0 THEN a ELSE Inf(a.n * Sign(b.n)))
    ELSE IF b.n = 0 THEN (IF a.n = 0 THEN NaN ELSE Inf(Sign(a.n)))
    ELSE Rat(a.n * b.d * Sign(b.n), a.d * AbsInt(b.n))

\* abs(a)
Abs(a) == IF a.k = "num" THEN Rat(AbsInt(a.n), a.d)
          ELSE IF a.k = "inf" THEN Inf(1) ELSE a

\* a > b (False when either side is NaN)
Gt(a, b) ==
    /\ a.k # "nan" /\ b.k # "nan"
    /\ \/ a.k = "inf" /\ a.n > 0 /\ ~(b.k = "inf" /\ b.n > 0)
       \/ b.k = "inf" /\ b.n < 0 /\ ~(a.k = "inf" /\ a.n < 0)
       \/ a.k = "num" /\ b.k = "num" /\ a.n * b.d > b.n * a.d

\* a >= b
Ge(a, b) ==
    /\ a.k # "nan" /\ b.k # "nan"
    /\ \/ Gt(a, b)
       \/ a.k = "inf" /\ b.k = "inf" /\ a.n = b.n
       \/ a.k = "num" /\ b.k = "num" /\ a.n * b.d = b.n * a.d

\* s[i] of a 0-based Python sequence
At(s, i) == s[i + 1]

\* s[:n]
Take(s, n) == SubSeq(s, 1, IF Len(s) < n THEN Len(s) ELSE n)

Min(a, b) == IF a < b THEN a ELSE b

----------------------------------------------------------------------------
(* check_growth_acceleration *)

\* GrowthRate without the `values[i + 4] != 0` test
GrowthRate_NoZeroTest(values, i) ==
    IF /\ Len(values) > i + 4
       /\ ~isna(At(values, i))
       /\ ~isna(At(values, i + 4))
    THEN Mul(Div(Sub(At(values, i), At(values, i + 4)), Abs(At(values, i + 4))), Num(100))
    ELSE None

\* one of the four unrolled blocks: the YoY growth of values[i] against values[i+4]
GrowthRate(values, i) ==
    IF /\ Len(values) > i + 4
       /\ Ne0(At(values, i + 4))
       /\ ~isna(At(values, i))
       /\ ~isna(At(values, i + 4))
    THEN Mul(Div(Sub(At(values, i), At(values, i + 4)), Abs(At(values, i + 4))), Num(100))
    ELSE None

\* returns (is_accelerating, growth_rates)
check_growth_acceleration(values) ==
    IF Len(values) < 5 THEN [accelerating |-> FALSE, growth_rates |-> <<>>]
    ELSE LET growth_rates == [j \in 1..4 |-> GrowthRate(values, j - 1)]
         IN  IF growth_rates[1] # None /\ growth_rates[2] # None
             THEN [accelerating |-> Gt(growth_rates[1], growth_rates[2]),
                   growth_rates |-> growth_rates]
             ELSE [accelerating |-> FALSE, growth_rates |-> growth_rates]

----------------------------------------------------------------------------
(* calculate_fundamental_scores: the primary provider (Yahoo Finance) *)

\* A statement table (DataFrame) is a function from the line items it holds
\* to their quarterly values, most recent first; `'X' in income.index` is
\* "X" \in DOMAIN income.  fund_data = [income, balance, info]; info is
\* [returnOnEquity |-> number or None].

NoDetails == [x \in {} |-> 0]
ZeroScores == [sales_growth |-> 0, gross_margin |-> 0, earnings |-> 0,
               rule_of_40 |-> 0, roe |-> 0]

\* yf_sales_rule with `latest_yoy >= 15`
yf_sales_rule_Ge15(latest_yoy, is_accelerating) ==
    IF latest_yoy # None
    THEN IF Gt(latest_yoy, Num(30)) THEN 2
         ELSE (IF is_accelerating THEN 1 ELSE 0)
              + (IF Ge(latest_yoy, Num(15)) THEN 1 ELSE 0)
    ELSE 0

\* the sales growth score from (latest_yoy, is_accelerating)
yf_sales_rule(latest_yoy, is_accelerating) ==
    IF latest_yoy # None
    THEN IF Gt(latest_yoy, Num(30)) THEN 2
         ELSE (IF is_accelerating THEN 1 ELSE 0)
              + (IF Gt(latest_yoy, Num(15)) THEN 1 ELSE 0)
    ELSE 0

\* 1. Sales Growth Acceleration (YoY)
yf_sales_growth(income) ==
    IF "Total Revenue" \in DOMAIN income
    THEN LET revenue == Take(income["Total Revenue"], 8)
             g == check_growth_acceleration(revenue)
             latest_yoy == IF g.growth_rates # <<>> THEN g.growth_rates[1] ELSE None
         IN  [score |-> yf_sales_rule(latest_yoy, g.accelerating),
              details |-> ("revenue_quarters_available" :> Len(revenue))
                          @@ ("sales" :> Take(revenue, 4))
                          @@ ("sales_growth" :> Take(g.growth_rates, 4))]
    ELSE [score |-> 0, details |-> NoDetails]

\* the margin score from the list of margins (shared shape of lines 539-547)
yf_margin_rule(gross_margin_values) ==
    IF Len(gross_margin_values) >= 2
    THEN LET latest_margin == gross_margin_values[1]
             prev_margin == gross_margin_values[2]
         IN  IF latest_margin # None
             THEN (IF prev_margin # None /\ Gt(latest_margin, prev_margin) THEN 1 ELSE 0)
                  + (IF Gt(latest_margin, Num(40)) THEN 1 ELSE 0)
             ELSE 0
    ELSE 0

\* 2. GROSS Profit Margin Acceleration
yf_gross_margin(income) ==
    LET gross_margin_values ==
            IF "Gross Profit" \in DOMAIN income /\ "Total Revenue" \in DOMAIN income
            THEN LET gross_profit == Take(income["Gross Profit"], 4)
                     revenue == Take(income["Total Revenue"], 4)
                 IN  IF Len(revenue) = Len(gross_profit)
                     THEN [i \in 1..Len(revenue) |->
                              IF Ne0(revenue[i])
                              THEN Mul(Div(gross_profit[i], revenue[i]), Num(100))
                              ELSE None]
                     ELSE <<>>
            ELSE <<>>
    IN  [score |-> yf_margin_rule(gross_margin_values),
         details |-> IF Len(gross_margin_values) >= 2
                     THEN "gross_margin" :> gross_margin_values
                     ELSE NoDetails]

\* a variant with a direct full-score branch for growth above 30
yf_earnings_rule_Direct30(latest_yoy, is_accelerating) ==
    IF latest_yoy # None
    THEN IF Gt(latest_yoy, Num(30)) THEN 2
         ELSE (IF is_accelerating THEN 1 ELSE 0)
              + (IF Gt(latest_yoy, Num(20)) THEN 1 ELSE 0)
    ELSE 0

\* the earnings score from (latest_yoy, is_accelerating)
yf_earnings_rule(latest_yoy, is_accelerating) ==
    IF latest_yoy # None
    THEN (IF is_accelerating THEN 1 ELSE 0)
         + (IF Gt(latest_yoy, Num(20)) THEN 1 ELSE 0)
    ELSE 0

\* 3. Earnings Growth Acceleration (YoY)
yf_earnings(income) ==
    IF "Net Income" \in DOMAIN income
    THEN LET earnings == Take(income["Net Income"], 8)
             g == check_growth_acceleration(earnings)
             latest_yoy == IF g.growth_rates # <<>> THEN g.growth_rates[1] ELSE None
         IN  [score |-> yf_earnings_rule(latest_yoy, g.accelerating),
              details |-> ("earnings_quarters_available" :> Len(earnings))
                          @@ ("earnings" :> Take(earnings, 4))
                          @@ ("earnings_growth" :> Take(g.growth_rates, 4))]
    ELSE [score |-> 0, details |-> NoDetails]

\* 4. Rule of 40: the growth term (revenue[0] against revenue[1])
yf_revenue_growth(income) ==
    IF "Total Revenue" \in DOMAIN income
    THEN LET revenue == Take(income["Total Revenue"], 2)
         IN  IF Len(revenue) >= 2 /\ Ne0(At(revenue, 1))
             THEN Mul(Div(Sub(At(revenue, 0), At(revenue, 1)), Abs(At(revenue, 1))), Num(100))
             ELSE None
    ELSE None

\* 4. Rule of 40: the margin term; `.values[0]` of a table without columns
\* raises IndexError, which the block's bare except swallows
yf_profit_margin(income) ==
    LET item == IF "Gross Profit" \in DOMAIN income THEN "Gross Profit" ELSE "EBITDA"
    IN  IF item \in DOMAIN income /\ "Total Revenue" \in DOMAIN income
        THEN IF Len(income[item]) = 0 THEN [exc |-> TRUE, v |-> None]
             ELSE LET profit == At(income[item], 0)
                      revenue == At(income["Total Revenue"], 0)
                  IN  [exc |-> FALSE,
                       v |-> IF Ne0(revenue)
                             THEN Mul(Div(profit, revenue), Num(100))
                             ELSE None]
        ELSE [exc |-> FALSE, v |-> None]

\* 4. Rule of 40
yf_rule_of_40(income) ==
    LET revenue_growth == yf_revenue_growth(income)
        margin == yf_profit_margin(income)
        profit_margin_pct == margin.v
        growthD == IF revenue_growth # None
                   THEN "latest_revenue_growth" :> revenue_growth ELSE NoDetails
    IN  IF margin.exc THEN [score |-> 0, details |-> growthD]
        ELSE IF revenue_growth # None /\ profit_margin_pct # None
        THEN LET rule_of_40_value == Add(revenue_growth, profit_margin_pct)
             IN  [score |-> IF Ge(rule_of_40_value, Num(40)) THEN 2 ELSE 0,
                  details |-> growthD
                              @@ ("latest_profit_margin" :> profit_margin_pct)
                              @@ ("rule_of_40" :> rule_of_40_value)]
        ELSE [score |-> 0,
              details |-> growthD @@
                          (IF profit_margin_pct # None
                           THEN "latest_profit_margin" :> profit_margin_pct
                           ELSE NoDetails)]

\* 5. ROE
yf_roe(income, balance, info) ==
    LET roe == info.returnOnEquity
    IN  IF roe # None
        THEN LET roe_pct == Mul(roe, Num(100))
             IN  [score |-> IF Ge(roe_pct, Num(15)) THEN 2 ELSE 0,
                  details |-> ("roe" :> roe_pct) @@ ("roe_quarters" :> <<roe_pct>>)]
        ELSE IF "Net Income" \in DOMAIN income /\ "Stockholders Equity" \in DOMAIN balance
        THEN LET net_income == Take(income["Net Income"], 4)
                 equity == Take(balance["Stockholders Equity"], 4)
                 roe_quarters ==
                     [i \in 1..Min(Len(net_income), Len(equity)) |->
                         IF Ne0(equity[i]) /\ ~isna(net_income[i]) /\ ~isna(equity[i])
                         THEN Mul(Div(Mul(net_income[i], Num(4)), equity[i]), Num(100))
                         ELSE None]
             IN  IF roe_quarters # <<>>
                 THEN [score |-> IF roe_quarters[1] # None /\ Ge(roe_quarters[1], Num(15))
                                 THEN 2 ELSE 0,
                       details |-> "roe_quarters" :> roe_quarters]
                 ELSE [score |-> 0, details |-> NoDetails]
        ELSE [score |-> 0, details |-> NoDetails]

\* returns (scores, details); exc: an exception left the function
calculate_fundamental_scores(fd) ==
    IF fd = None THEN [exc |-> FALSE, scores |-> ZeroScores, details |-> NoDetails]
    ELSE LET s == yf_sales_growth(fd.income)
             m == yf_gross_margin(fd.income)
             e == yf_earnings(fd.income)
             r == yf_rule_of_40(fd.income)
             q == yf_roe(fd.income, fd.balance, fd.info)
         IN  [exc |-> FALSE,
              scores |-> [sales_growth |-> s.score, gross_margin |-> m.score,
                          earnings |-> e.score, rule_of_40 |-> r.score,
                          roe |-> q.score],
              details |-> s.details @@ m.details @@ e.details @@ r.details @@ q.details]

----------------------------------------------------------------------------
(* calculate_alpha_vantage_fundamentals: the secondary provider *)

\* A quarterly report is [totalRevenue, netIncome, grossProfit]; a field is
\* Absent (q.get gives None: the key is missing or JSON null) or Str(chars).
Absent == [k |-> "absent", s |-> <<>>]
Str(chars) == [k |-> "str", s |-> chars]

DigitChars == <<"0", "1", "2", "3", "4", "5", "6", "7", "8", "9">>
IsDigit(c) == \E i \in 1..10 : DigitChars[i] = c
DigitValue(c) == (CHOOSE i \in 1..10 : DigitChars[i] = c) - 1

RECURSIVE DigitsValue(_)
DigitsValue(s) ==
    IF s = <<>> THEN 0
    ELSE DigitsValue(SubSeq(s, 1, Len(s) - 1)) * 10 + DigitValue(s[Len(s)])

\* Python's int(s) on a str: an optional sign and one or more digits, else
\* ValueError (ok = FALSE).  Surrounding blanks and "_" separators, which
\* int() also accepts, are not among the inputs drawn.
int(s) ==
    LET signed == s # <<>> /\ s[1] \in {"-", "+"}
        body == IF signed THEN Tail(s) ELSE s
        ok == body # <<>> /\ \A i \in DOMAIN body : IsDigit(body[i])
    IN  [ok |-> ok,
         v |-> IF ~ok THEN 0
               ELSE IF signed /\ s[1] = "-" THEN 0 - DigitsValue(body)
               ELSE DigitsValue(body)]

\* "int(x) if x and x != 'None' else 0"
av_int(x) ==
    IF x.k = "str" /\ x.s # <<>> /\ x.s # <<"N", "o", "n", "e">>
    THEN int(x.s)
    ELSE [ok |-> TRUE, v |-> 0]

\* the extraction loop over income_data[:8] for one field
av_extract(income_data, key) ==
    LET first == Take(income_data, 8)
    IN  [i \in 1..Len(first) |-> av_int(first[i][key])]

Values(parsed) == [i \in DOMAIN parsed |-> parsed[i].v]
AllOk(parsed) == \A i \in DOMAIN parsed : parsed[i].ok

\* one pass of a YoY loop: current[i] against income_data[i + 4][key]
av_yoy(current, income_data, key, i) ==
    LET year_ago == av_int(At(income_data, i + 4)[key])
        cur == IF i < Len(current) THEN At(current, i) ELSE 0
    IN  [ok |-> year_ago.ok,
         v |-> IF year_ago.v # 0 /\ cur # 0
               THEN Rat((cur - year_ago.v) * 100, AbsInt(year_ago.v))
               ELSE None]

\* the YoY list of a growth block: 8 points with 12 or more quarters, 4
\* points with 8 to 11, [None] * 4 below
av_growth(current, income_data, key) ==
    IF Len(income_data) >= 12
    THEN [j \in 1..8 |-> av_yoy(current, income_data, key, j - 1)]
    ELSE IF Len(income_data) >= 8
    THEN [j \in 1..4 |-> av_yoy(current, income_data, key, j - 1)]
    ELSE [j \in 1..4 |-> [ok |-> TRUE, v |-> None]]

\* av_sales_rule without the `latest_yoy > 30` branch
av_sales_rule_Additive(latest_yoy, prev_yoy) ==
    IF latest_yoy # None
    THEN (IF prev_yoy # None /\ Gt(latest_yoy, prev_yoy) THEN 1 ELSE 0)
         + (IF Gt(latest_yoy, Num(15)) THEN 1 ELSE 0)
    ELSE 0

\* the sales growth score from (latest_yoy, prev_yoy)
av_sales_rule(latest_yoy, prev_yoy) ==
    IF latest_yoy # None
    THEN IF Gt(latest_yoy, Num(30)) THEN 2
         ELSE (IF prev_yoy # None /\ Gt(latest_yoy, prev_yoy) THEN 1 ELSE 0)
              + (IF Gt(latest_yoy, Num(15)) THEN 1 ELSE 0)
    ELSE 0

\* the earnings score from (latest_yoy, prev_yoy)
av_earnings_rule(latest_yoy, prev_yoy) ==
    IF latest_yoy # None
    THEN (IF prev_yoy # None /\ Gt(latest_yoy, prev_yoy) THEN 1 ELSE 0)
         + (IF Gt(latest_yoy, Num(20)) THEN 1 ELSE 0)
    ELSE 0

\* 2. GROSS Profit Margin Acceleration
av_gross_margin_values(revenues, gross_profits) ==
    [j \in 1..Min(8, Len(gross_profits)) |->
        IF j - 1 < Len(revenues) /\ revenues[j] # 0 /\ gross_profits[j] # 0
        THEN Div(Num(gross_profits[j] * 100), Num(revenues[j]))
        ELSE None]

av_margin_rule(gross_margin_values) ==
    IF Len(gross_margin_values) >= 2
    THEN LET latest_margin == gross_margin_values[1]
             prev_margin == gross_margin_values[2]
         IN  IF latest_margin # None
             THEN (IF prev_margin # None /\ Gt(latest_margin, prev_margin) THEN 1 ELSE 0)
                  + (IF Gt(latest_margin, Num(40)) THEN 1 ELSE 0)
             ELSE 0
    ELSE 0

\* 4. Rule of 40
av_rule_of_40(income_data, revenues, gross_profits) ==
    IF Len(income_data) >= 5
    THEN LET latest_rev == At(revenues, 0)
             year_ago_rev == av_int(At(income_data, 4).totalRevenue)
         IN  IF ~year_ago_rev.ok THEN [ok |-> FALSE, score |-> 0, details |-> NoDetails]
             ELSE IF year_ago_rev.v # 0
             THEN LET revenue_growth ==
                          Rat((latest_rev - year_ago_rev.v) * 100, AbsInt(year_ago_rev.v))
                  IN  IF At(revenues, 0) # 0 /\ At(gross_profits, 0) # 0
                      THEN LET profit_margin ==
                                   Div(Num(At(gross_profits, 0) * 100), Num(At(revenues, 0)))
                               rule_of_40 == Add(revenue_growth, profit_margin)
                           IN  [ok |-> TRUE,
                                score |-> IF Ge(rule_of_40, Num(40)) THEN 2 ELSE 0,
                                details |-> ("latest_revenue_growth" :> revenue_growth)
                                            @@ ("latest_profit_margin" :> profit_margin)
                                            @@ ("rule_of_40" :> rule_of_40)]
                      ELSE [ok |-> TRUE, score |-> 0,
                            details |-> "latest_revenue_growth" :> revenue_growth]
             ELSE [ok |-> TRUE, score |-> 0, details |-> NoDetails]
    ELSE [ok |-> TRUE, score |-> 0, details |-> NoDetails]

\* returns (scores, details); exc: a ValueError of int() left the function
calculate_alpha_vantage_fundamentals(income_data) ==
    IF Len(income_data) < 4
    THEN [exc |-> FALSE, scores |-> ZeroScores, details |-> NoDetails]
    ELSE LET rev == av_extract(income_data, "totalRevenue")
             ni == av_extract(income_data, "netIncome")
             gp == av_extract(income_data, "grossProfit")
             revenues == Values(rev)
             net_incomes == Values(ni)
             gross_profits == Values(gp)
             sg == av_growth(revenues, income_data, "totalRevenue")
             sales_growth == Values(sg)
             gross_margin_values == av_gross_margin_values(revenues, gross_profits)
             eg == av_growth(net_incomes, income_data, "netIncome")
             earnings_growth == Values(eg)
             r40 == av_rule_of_40(income_data, revenues, gross_profits)
         IN  IF ~(AllOk(rev) /\ AllOk(ni) /\ AllOk(gp) /\ AllOk(sg) /\ AllOk(eg) /\ r40.ok)
             THEN [exc |-> TRUE, scores |-> ZeroScores, details |-> NoDetails]
             ELSE [exc |-> FALSE,
                   scores |-> [sales_growth |-> av_sales_rule(sales_growth[1], sales_growth[2]),
                               gross_margin |-> av_margin_rule(gross_margin_values),
                               earnings |-> av_earnings_rule(earnings_growth[1],
                                                             earnings_growth[2]),
                               rule_of_40 |-> r40.score,
                               roe |-> 0],
                   details |-> ("revenue_quarters_available" :> Len(income_data))
                               @@ ("earnings_quarters_available" :> Len(income_data))
                               @@ ("sales_source" :> "Alpha Vantage")
                               @@ ("earnings_source" :> "Alpha Vantage")
                               @@ ("margin_source" :> "Alpha Vantage")
                               @@ ("sales" :> revenues)
                               @@ ("earnings" :> net_incomes)
                               @@ ("gross_profit" :> gross_profits)
                               @@ ("sales_growth" :> sales_growth)
                               @@ ("gross_margin" :> gross_margin_values)
                               @@ ("earnings_growth" :> earnings_growth)
                               @@ r40.details
                               @@ ("roe_source" :> "Yahoo Finance (calculated separately)")
                               @@ ("roe_quarters" :> <<None, None, None, None>>)]

----------------------------------------------------------------------------
(* Technical signal detectors *)

\* A stage input that float() rejects (a non-numeric string; None is rejected too)
Bad == [k |-> "bad", n |-> 0, d |-> 1]

\* float(x) raises for None and for a non-numeric value
FloatOk(x) == x.k \notin {"bad", "none"}

\* calculate_stage with `ma_150 <= ma_200` in the S1 branch
calculate_stage_S1Tie(price, ma50, ma150, ma200) ==
    IF ~(FloatOk(price) /\ FloatOk(ma50) /\ FloatOk(ma150) /\ FloatOk(ma200))
    THEN [stage |-> "Error", score |-> 0]
    ELSE IF Gt(price, ma50) /\ Gt(ma50, ma150) /\ Gt(ma150, ma200)
    THEN [stage |-> "S2", score |-> 2]
    ELSE IF Gt(price, ma50) /\ Gt(ma50, ma150) /\ Ge(ma200, ma150)
    THEN [stage |-> "S1", score |-> 1]
    ELSE IF Gt(price, ma50) /\ Gt(ma150, ma50) /\ Gt(ma150, ma200)
    THEN [stage |-> "S3 Strong", score |-> 1]
    ELSE [stage |-> "Other", score |-> 0]

\* returns (stage, score); the bare except turns any failure of float() into "Error"
calculate_stage(price, ma50, ma150, ma200) ==
    IF ~(FloatOk(price) /\ FloatOk(ma50) /\ FloatOk(ma150) /\ FloatOk(ma200))
    THEN [stage |-> "Error", score |-> 0]
    ELSE IF Gt(price, ma50) /\ Gt(ma50, ma150) /\ Gt(ma150, ma200)
    THEN [stage |-> "S2", score |-> 2]
    ELSE IF Gt(price, ma50) /\ Gt(ma50, ma150) /\ Gt(ma200, ma150)
    THEN [stage |-> "S1", score |-> 1]
    ELSE IF Gt(price, ma50) /\ Gt(ma150, ma50) /\ Gt(ma150, ma200)
    THEN [stage |-> "S3 Strong", score |-> 1]
    ELSE [stage |-> "Other", score |-> 0]

\* A price history (DataFrame) is a sequence of bars [Open, High, Low, Close,
\* Volume] of positive integers, oldest first.

\* the sum of column `col` over bars from..to (1-based, inclusive)
RECURSIVE SumCol(_, _, _, _)
SumCol(df, col, from, to) ==
    IF from > to THEN 0
    ELSE IF from = to THEN df[to][col]
    ELSE LET mid == (from + to) \div 2
         IN  SumCol(df, col, from, mid) + SumCol(df, col, mid + 1, to)

\* the maximum of column `col` over bars from..to
RECURSIVE MaxCol(_, _, _, _)
MaxCol(df, col, from, to) ==
    IF from = to THEN df[to][col]
    ELSE LET m == MaxCol(df, col, from, to - 1)
         IN  IF df[to][col] > m THEN df[to][col] ELSE m

\* calc_ma(df['Close'], period)
calc_ma(df, period) ==
    IF Len(df) < period THEN None
    ELSE Rat(SumCol(df, "Close", Len(df) - period + 1, Len(df)), period)

\* a variant whose volume mean is taken over the bars there are when the
\* 30-bar window is not yet full
Is_Key_Bar_PartialWindow(df, i) ==
    /\ df[i].Volume * Min(i, 30) > SumCol(df, "Volume", IF i > 30 THEN i - 29 ELSE 1, i)
    /\ Gt(Abs(Mul(Div(Num(df[i].Close - df[i].Open), Num(df[i].Open)), Num(100))),
          Rat(15, 10))
    /\ i >= 6
    /\ df[i].High > MaxCol(df, "High", i - 5, i - 1)

\* df['Is_Key_Bar'] of bar i (1-based): the rolling mean of 30 volumes and the
\* maximum of the 5 previous highs are NaN before the windows are full, and
\* a comparison with NaN is False
Is_Key_Bar(df, i) ==
    /\ i >= 30
    /\ df[i].Volume * 30 > SumCol(df, "Volume", i - 29, i)
    /\ Gt(Abs(Mul(Div(Num(df[i].Close - df[i].Open), Num(df[i].Open)), Num(100))),
          Rat(15, 10))
    /\ i >= 6
    /\ df[i].High > MaxCol(df, "High", i - 5, i - 1)

\* a variant that searches the whole history instead of the last 10 bars
detect_key_bars_WholeHistory(df) ==
    IF Len(df) < 30 THEN [ok |-> FALSE, kb |-> 0]
    ELSE LET key_bars == {i \in 1..Len(df) : Is_Key_Bar(df, i)}
         IN  IF key_bars # {}
             THEN [ok |-> TRUE, kb |-> CHOOSE i \in key_bars : \A j \in key_bars : j <= i]
             ELSE [ok |-> TRUE, kb |-> 0]

\* a variant without the length test that takes the last bar for the key bar
detect_key_bars_NoLengthTest(df) == [ok |-> TRUE, kb |-> Len(df)]

\* returns (df, most_recent_kb); kb is the index of the key bar, 0 for None;
\* ok is FALSE when df itself is returned as None
detect_key_bars(df) ==
    IF Len(df) < 30 THEN [ok |-> FALSE, kb |-> 0]
    ELSE LET recent_data == (IF Len(df) > 10 THEN Len(df) - 9 ELSE 1)..Len(df)
             recent_key_bars == {i \in recent_data : Is_Key_Bar(df, i)}
         IN  IF recent_key_bars # {}
             THEN [ok |-> TRUE,
                   kb |-> CHOOSE i \in recent_key_bars : \A j \in recent_key_bars : j <= i]
             ELSE [ok |-> TRUE, kb |-> 0]

\* a variant whose proximity test excludes the boundary
calculate_key_bar_score_Strict(df, found) ==
    IF ~found.ok \/ found.kb = 0 THEN 0
    ELSE LET current_price == df[Len(df)].Close
             kb_close == df[found.kb].Close
         IN  1 + (IF Gt(Mul(Num(kb_close), Rat(105, 100)), Num(current_price)) THEN 1 ELSE 0)

\* calculate_key_bar_score(df, recent_key_bar): the score
calculate_key_bar_score(df, found) ==
    IF ~found.ok \/ found.kb = 0 THEN 0
    ELSE LET current_price == df[Len(df)].Close
             kb_close == df[found.kb].Close
         IN  1 + (IF Ge(Mul(Num(kb_close), Rat(105, 100)), Num(current_price)) THEN 1 ELSE 0)

----------------------------------------------------------------------------
(* Data providers *)

Msg(text) == [k |-> "msg", s |-> text]
List(l) == [k |-> "list", v |-> l]

\* str.strip() of blanks
RECURSIVE strip(_)
strip(s) ==
    IF s # <<>> /\ s[1] = " " THEN strip(Tail(s))
    ELSE IF s # <<>> /\ s[Len(s)] = " " THEN strip(SubSeq(s, 1, Len(s) - 1))
    ELSE s

\* `av_key and av_key.strip() != ''`
HasKey(av_key) == av_key # <<>> /\ strip(av_key) # <<>>

\* An HTTP exchange with the secondary provider: [kind, status, json]; kind
\* "exception" stands for a transport error, a timeout or a body that is not
\* JSON; json maps the keys of the body to their values.
NoResponse == [kind |-> "none", status |-> 0, json |-> [x \in {} |-> 0]]
Failed(text) == [data |-> None, err |-> Msg(text), requests |-> 1]

\* fetch_alpha_vantage_data reading "quarterlyReports" before the error keys
fetch_alpha_vantage_data_ReportsFirst(api_key, resp) ==
    IF ~HasKey(api_key)
    THEN [data |-> None, err |-> Msg("Please provide a valid Alpha Vantage API key"),
          requests |-> 0]
    ELSE IF resp.kind = "exception" THEN Failed("Error fetching Alpha Vantage data")
    ELSE IF resp.status # 200 THEN Failed("Alpha Vantage API error")
    ELSE IF "quarterlyReports" \in DOMAIN resp.json
    THEN [data |-> resp.json["quarterlyReports"], err |-> None, requests |-> 1]
    ELSE IF "Error Message" \in DOMAIN resp.json THEN Failed("Alpha Vantage error")
    ELSE IF "Note" \in DOMAIN resp.json THEN Failed("Alpha Vantage rate limit")
    ELSE IF "Information" \in DOMAIN resp.json THEN Failed("Alpha Vantage info")
    ELSE Failed("No quarterly data")

\* returns (income_data, error); requests counts the HTTP requests sent
fetch_alpha_vantage_data(api_key, resp) ==
    IF ~HasKey(api_key)
    THEN [data |-> None, err |-> Msg("Please provide a valid Alpha Vantage API key"),
          requests |-> 0]
    ELSE IF resp.kind = "exception" THEN Failed("Error fetching Alpha Vantage data")
    ELSE IF resp.status # 200 THEN Failed("Alpha Vantage API error")
    ELSE IF "Error Message" \in DOMAIN resp.json THEN Failed("Alpha Vantage error")
    ELSE IF "Note" \in DOMAIN resp.json THEN Failed("Alpha Vantage rate limit")
    ELSE IF "Information" \in DOMAIN resp.json THEN Failed("Alpha Vantage info")
    ELSE IF "quarterlyReports" \notin DOMAIN resp.json THEN Failed("No quarterly data")
    ELSE [data |-> resp.json["quarterlyReports"], err |-> None, requests |-> 1]

\* fetch_stock_data without the test for an empty history
fetch_stock_data_NoEmptyTest(outcome) ==
    IF outcome.kind = "exception" THEN [df |-> 0, err |-> Msg("Error fetching data")]
    ELSE [df |-> outcome.df, err |-> None]

\* fetch_stock_data: (df, None), or (None, error) when the provider raises or
\* returns no bars.  A price history is kept in the state by its number in
\* PriceHistories; 0 is None.
fetch_stock_data(outcome) ==
    IF outcome.kind = "exception" THEN [df |-> 0, err |-> Msg("Error fetching data")]
    ELSE IF outcome.df = 0 THEN [df |-> 0, err |-> Msg("No price data available")]
    ELSE [df |-> outcome.df, err |-> None]

\* fetch_fundamental_data: (fund_data, None), or (None, error) when the provider raises
fetch_fundamental_data(outcome) ==
    IF outcome.kind = "exception"
    THEN [data |-> None, err |-> Msg("Error fetching fundamentals")]
    ELSE [data |-> outcome.data, err |-> None]

\* select_provider without the test of the credential
select_provider_NoKeyTest(av_key, resp) ==
    LET av == fetch_alpha_vantage_data(<<"K">>, resp)
        ok == av.err = None /\ av.data # None /\ av.data.v # <<>>
    IN  [use_av |-> ok, av_income |-> av.data, av_error |-> av.err,
         requests |-> av.requests, contacted |-> TRUE]

\* a variant that falls back to the primary provider below 4 quarterly reports
select_provider_Needs4(av_key, resp) ==
    IF HasKey(av_key)
    THEN LET av == fetch_alpha_vantage_data(av_key, resp)
             ok == av.err = None /\ av.data # None /\ Len(av.data.v) >= 4
         IN  [use_av |-> ok, av_income |-> av.data, av_error |-> av.err,
              requests |-> av.requests, contacted |-> TRUE]
    ELSE [use_av |-> FALSE, av_income |-> None, av_error |-> None,
          requests |-> 0, contacted |-> FALSE]

\* the provider selection of a run (the block under st.spinner, after the
\* price fetch): use_av, the secondary result, and whether the primary
\* statements are fetched
select_provider(av_key, resp) ==
    IF HasKey(av_key)
    THEN LET av == fetch_alpha_vantage_data(av_key, resp)
             ok == av.err = None /\ av.data # None /\ av.data.v # <<>>
         IN  [use_av |-> ok, av_income |-> av.data, av_error |-> av.err,
              requests |-> av.requests, contacted |-> TRUE]
    ELSE [use_av |-> FALSE, av_income |-> None, av_error |-> None,
          requests |-> 0, contacted |-> FALSE]

----------------------------------------------------------------------------
(* Inputs of the direct calls *)

MaxCols == 9           \* columns (quarters) of a primary statement table
MaxAVQuarters == 12    \* quarterlyReports entries of the secondary provider

\* A quarterly series of length len whose quarters 0, 1 and the quarters a
\* year before them (4, 5) take the values a, b, c, d; quarters 2, 3, 6, 7
\* repeat them crosswise and older quarters hold `old`.
Series(len, a, b, c, d, old) ==
    [i \in 1..len |-> CASE i \in {1, 4} -> a
                        [] i \in {2, 3} -> b
                        [] i \in {5, 8} -> c
                        [] i \in {6, 7} -> d
                        [] OTHER -> old]

Cells == {NaN, Num(0), Num(-100), Num(100), Num(115), Num(120), Num(130), Num(140)}
FewCells == {NaN, Num(0), Num(100), Num(120)}

SeriesInputs ==
    {Series(len, a, b, c, d, Num(100)) :
        len \in 0..MaxCols, a \in Cells, b \in Cells, c \in Cells, d \in Cells}

\* the revenue series of the specification's scenario, and its net income
ScenarioRevenue == <<Num(120), Num(100), Num(90), Num(80), Num(110), Num(95), Num(85), Num(75)>>
ScenarioNetIncome == <<Num(12), Num(10), Num(9), Num(8), Num(11), Num(9), Num(8), Num(7)>>

Const(len, x) == [i \in 1..len |-> x]

FundData(income, equity, roe) ==
    [income |-> income,
     balance |-> IF equity = <<>> THEN NoDetails ELSE "Stockholders Equity" :> equity,
     info |-> [returnOnEquity |-> roe]]

\* primary statements: the revenue row varies
YahooRevenueInputs ==
    {FundData(("Total Revenue" :> s) @@ ("Gross Profit" :> Const(Len(s), Num(50)))
              @@ ("Net Income" :> Const(Len(s), Num(10))),
              Const(Len(s), Num(100)), None) : s \in SeriesInputs}

\* primary statements: the net income row varies
YahooEarningsInputs ==
    {FundData(("Total Revenue" :> Const(len, Num(100))) @@ ("Gross Profit" :> Const(len, Num(30)))
              @@ ("Net Income" :> Series(len, a, b, c, d, Num(10))),
              Const(len, Num(100)), None) :
        len \in {4, 5, MaxCols}, a \in Cells, b \in FewCells, c \in FewCells, d \in FewCells}

LineItems == {"Total Revenue", "Gross Profit", "Net Income", "EBITDA"}

\* primary statements: line items, the equity table and the reported ratio
\* present or missing, over short and long tables
YahooTableInputs ==
    {FundData([item \in items |->
                  CASE item = "Total Revenue" -> Series(len, rev, Num(100), Num(100), Num(100), Num(100))
                    [] item = "Gross Profit" -> Series(len, gp, Num(35), Num(35), Num(35), Num(35))
                    [] item = "Net Income" -> Series(len, Num(12), Num(10), Num(10), Num(10), Num(10))
                    [] OTHER -> Const(len, Num(45))],
              equity, roe) :
        items \in SUBSET LineItems, len \in {0, 1, 2, 4, 8},
        rev \in {Num(0), Num(100), Num(140)}, gp \in {NaN, Num(50)},
        equity \in {<<>>, <<Num(0)>>, <<Num(100), Num(100)>>},
        roe \in {None, Rat(10, 100), Rat(15, 100), Rat(3, 2)}}

YahooScenario ==
    FundData(("Total Revenue" :> ScenarioRevenue) @@ ("Net Income" :> ScenarioNetIncome),
             <<>>, None)

YahooInputs ==
    YahooRevenueInputs \cup YahooEarningsInputs \cup YahooTableInputs \cup {YahooScenario}

\* str(n) of a non-negative integer, as the provider writes its numbers
RECURSIVE Digits(_)
Digits(n) ==
    IF n < 10 THEN <<DigitChars[n + 1]>>
    ELSE Append(Digits(n \div 10), DigitChars[(n % 10) + 1])

StrNum(n) == Str(IF n < 0 THEN <<"-">> \o Digits(0 - n) ELSE Digits(n))
StrNone == Str(<<"N", "o", "n", "e">>)
StrEmpty == Str(<<>>)
StrNA == Str(<<"N", "/", "A">>)
StrDecimal == Str(<<"1", "2", ".", "5">>)

Report(rev, ni, gp) == [totalRevenue |-> rev, netIncome |-> ni, grossProfit |-> gp]

AVLatest == {Absent, StrNone, StrEmpty, StrNA, StrNum(0), StrNum(-100), StrNum(100),
             StrNum(115), StrNum(120), StrNum(130), StrNum(140)}
AVYearAgo == {Absent, StrNone, StrDecimal, StrNum(0), StrNum(-100), StrNum(100)}
AVPrev == {StrNone, StrNum(0), StrNum(100), StrNum(120)}
AVPrevYearAgo == {StrNum(0), StrNum(100)}

\* secondary reports: the totalRevenue field varies
AVRevenueInputs ==
    {LET s == Series(len, a, b, c, d, StrNum(100))
     IN  [i \in 1..len |-> Report(s[i], StrNum(10), StrNum(50))] :
        len \in 0..MaxAVQuarters, a \in AVLatest, b \in AVPrev, c \in AVYearAgo,
        d \in AVPrevYearAgo}

\* secondary reports: the netIncome field varies
AVEarningsInputs ==
    {LET s == Series(len, a, b, c, d, StrNum(10))
     IN  [i \in 1..len |-> Report(StrNum(100), s[i], StrNum(30))] :
        len \in {4, 7, 8, MaxAVQuarters}, a \in AVLatest, b \in AVPrev, c \in AVYearAgo,
        d \in AVPrevYearAgo}

\* secondary reports: the grossProfit field varies
AVMarginInputs ==
    {LET s == Series(len, a, b, StrNum(35), StrNum(35), StrNum(35))
     IN  [i \in 1..len |-> Report(StrNum(100), StrNum(10), s[i])] :
        len \in {4, 5, 8}, a \in AVLatest \cup {StrNum(35), StrNum(50)},
        b \in AVPrev \cup {StrNA, StrNum(35)}}

AVScenario ==
    [i \in 1..8 |-> Report(StrNum(ScenarioRevenue[i].n), StrNum(ScenarioNetIncome[i].n),
                           Absent)]

AVInputs == AVRevenueInputs \cup AVEarningsInputs \cup AVMarginInputs \cup {AVScenario}

----------------------------------------------------------------------------
(* What a script run is given: the user's interaction and the providers' answers *)

MaxRuns == 2           \* script runs of one browser session

Bar(o, h, l, c, v) == [Open |-> o, High |-> h, Low |-> l, Close |-> c, Volume |-> v]
Flat(len, c) == [i \in 1..len |-> Bar(c, c, c, c, 100)]
Spike == Bar(120, 126, 120, 125, 300)

\* the price histories the price provider may return
PriceHistories ==
    << Flat(1, 100),
       \* 30 bars, the last one a key bar
       Flat(29, 120) \o <<Spike>>,
       \* uptrend, a key bar five bars ago and the price run away from it
       Flat(100, 100) \o Flat(50, 110) \o Flat(44, 120) \o <<Spike>> \o Flat(5, 135),
       \* recovery below a falling 200-bar average, the last bar a key bar
       Flat(50, 300) \o Flat(100, 100) \o Flat(49, 120) \o <<Spike>> >>

PriceOutcomes ==
    {[kind |-> "ok", df |-> i] : i \in 0..Len(PriceHistories)}
        \cup {[kind |-> "exception", df |-> 0]}

Reports(len, rev, ni, gp) ==
    [i \in 1..len |-> Report(StrNum(rev[i]), StrNum(ni[i]), StrNum(gp[i]))]

\* quarterlyReports lists: 3 quarters; the scenario; 12 strong quarters; a
\* list with a malformed field
RunReports ==
    { Reports(3, <<120, 100, 90>>, <<12, 10, 9>>, <<60, 40, 40>>),
      [i \in 1..8 |-> Report(StrNum(ScenarioRevenue[i].n), StrNum(ScenarioNetIncome[i].n),
                             Absent)],
      Reports(12, <<140, 110, 100, 100, 100, 100, 100, 100, 100, 100, 100, 100>>,
                  <<30, 12, 10, 10, 10, 10, 10, 10, 10, 10, 10, 10>>,
                  <<70, 50, 45, 45, 45, 45, 45, 45, 45, 45, 45, 45>>),
      [i \in 1..8 |-> Report(StrNum(100), IF i = 2 THEN StrNA ELSE StrNum(10), StrNum(50))] }

Http(status, json) == [kind |-> "http", status |-> status, json |-> json]
GoodReports == "quarterlyReports" :> List(Reports(3, <<120, 100, 90>>, <<12, 10, 9>>, <<60, 40, 40>>))

AVResponses ==
    { [kind |-> "exception", status |-> 0, json |-> NoDetails],
      Http(500, NoDetails),
      Http(200, "Error Message" :> "Invalid API call"),
      Http(200, "Note" :> "rate limit"),
      Http(200, ("Note" :> "rate limit") @@ GoodReports),
      Http(200, "Information" :> "premium endpoint"),
      Http(200, "symbol" :> "AAPL"),
      Http(200, "quarterlyReports" :> List(<<>>)) }
        \cup {Http(200, ("symbol" :> "AAPL") @@ ("quarterlyReports" :> List(r))) : r \in RunReports}

\* primary statements: the scenario; strong figures
RunFundData ==
    { YahooScenario,
      FundData(("Total Revenue" :> <<Num(140), Num(110), Num(100), Num(100), Num(100), Num(100)>>)
               @@ ("Gross Profit" :> <<Num(70), Num(50), Num(45), Num(45), Num(45), Num(45)>>)
               @@ ("Net Income" :> <<Num(30), Num(12), Num(10), Num(10), Num(10), Num(10)>>),
               <<Num(100), Num(100), Num(100), Num(100), Num(100), Num(100)>>, Rat(20, 100)) }

StatementOutcomes ==
    {[kind |-> "ok", data |-> fd] : fd \in RunFundData}
        \cup {[kind |-> "exception", data |-> None]}

\* yahoo_stock.info of the separate return-on-equity lookup
ROELookups ==
    {[kind |-> "ok", returnOnEquity |-> r] : r \in {None, Rat(10, 100), Rat(20, 100)}}
        \cup {[kind |-> "exception", returnOnEquity |-> None]}

PulseOptions == {"Green - Acceleration", "Grey Strong - Accumulation",
                 "Grey Weak - Distribution", "Red - Deceleration"}
ATRValues == {50, 51}
KeyValues == {<<>>, <<" ">>, <<"K", "1">>}

\* One script run follows one interaction: the user changed one widget, or none.
Events ==
    {[changed |-> "none", value |-> 0]}
        \cup {[changed |-> "alpha_vantage_key", value |-> k] : k \in KeyValues}
        \cup {[changed |-> "ticker", value |-> ""]}
        \cup {[changed |-> "market_pulse", value |-> x] : x \in PulseOptions}
        \cup {[changed |-> "atr_percentile", value |-> x] : x \in ATRValues}
        \cup {[changed |-> "accumulation_distribution", value |-> x] : x \in {0, 1}}
        \cup {[changed |-> "insider_activity", value |-> x] : x \in {0, 1}}
        \cup {[changed |-> "top_rated", value |-> x] : x \in {"No", "Yes"}}
        \cup {[changed |-> "new_dev", value |-> x] : x \in {"No", "Yes"}}

\* user_inputs.json when the session starts: no file, or a file of an earlier session
InitialStores ==
    { NoDetails,
      ("market_pulse" :> "Grey Strong - Accumulation") @@ ("alpha_vantage_key" :> <<"K", "1">>)
          @@ ("top_rated_group" :> TRUE) @@ ("new_development" :> TRUE)
          @@ ("atr_percentile" :> 51) @@ ("accumulation_distribution" :> 1)
          @@ ("insider_activity" :> 1) }

----------------------------------------------------------------------------
(* The script *)

Get(saved_inputs, key, default) ==
    IF key \in DOMAIN saved_inputs THEN saved_inputs[key] ELSE default

\* lines 64-81: st.session_state filled from load_user_inputs()
InitialSession(saved_inputs) ==
    [market_pulse |-> Get(saved_inputs, "market_pulse", "Green - Acceleration"),
     alpha_vantage_key |-> Get(saved_inputs, "alpha_vantage_key", <<>>),
     av_calls_today |-> 0,
     top_rated_group |-> Get(saved_inputs, "top_rated_group", FALSE),
     new_development |-> Get(saved_inputs, "new_development", FALSE),
     atr_percentile |-> Get(saved_inputs, "atr_percentile", 50),
     accumulation_distribution |-> Get(saved_inputs, "accumulation_distribution", 0),
     insider_activity |-> Get(saved_inputs, "insider_activity", 0)]

\* what the widgets return in a run: their session values, but for the one
\* the user changed.  The ticker box shows "AAPL" unless the user emptied it;
\* with a ticker present the run proceeds whether or not Analyze was pressed.
WidgetValues(sess, e) ==
    LET shown == [alpha_vantage_key |-> sess.alpha_vantage_key,
                  ticker |-> "AAPL",
                  market_pulse |-> sess.market_pulse,
                  atr_percentile |-> sess.atr_percentile,
                  accumulation_distribution |-> sess.accumulation_distribution,
                  insider_activity |-> sess.insider_activity,
                  top_rated |-> IF sess.top_rated_group THEN "Yes" ELSE "No",
                  new_dev |-> IF sess.new_development THEN "Yes" ELSE "No"]
    IN  IF e.changed = "none" THEN shown ELSE [shown EXCEPT ![e.changed] = e.value]

\* "if value != st.session_state.key: st.session_state.key = value;
\*  saved_inputs = load_user_inputs(); saved_inputs[key] = value;
\*  save_user_inputs(saved_inputs)" on the pair [session, store]
write_through(ss, key, value) ==
    IF value # ss.session[key]
    THEN [session |-> [ss.session EXCEPT ![key] = value],
          store |-> (key :> value) @@ ss.store]
    ELSE ss

\* the variables a script run assigns as it goes (its locals)
locals == <<widgets, stock_df, error, av_response, use_av, av_income, av_error, fund_data,
            fund_error, av_attempts, stmt_fetches, tech_scores, fund_scores,
            fund_details, fund_backing, remarks_scores, summary>>

\* lines 644-681: the sidebar with the credential, and the ticker
Sidebar ==
    /\ pc = "start"
    /\ \E e \in Events :
          LET w == WidgetValues(session, e)
              av_key == w.alpha_vantage_key
              ss == write_through([session |-> session, store |-> store],
                                  "alpha_vantage_key", av_key)
          IN  /\ widgets' = w
              /\ session' = ss.session
              /\ store' = ss.store
              /\ ui' = Append(ui, IF HasKey(av_key)
                                  THEN "success: Using Alpha Vantage API"
                                  ELSE "warning: Using Yahoo Finance (limited data)")
              /\ pc' = IF w.ticker # "" THEN "fetch" ELSE "idle"
    /\ UNCHANGED <<runs, stock_df, error, av_response, use_av, av_income, av_error, fund_data,
                   fund_error, av_attempts, stmt_fetches, tech_scores, fund_scores,
                   fund_details, fund_backing, remarks_scores, summary, raised>>
    /\ UNCHANGED callVars

\* lines 683-700: the price fetch and the provider selection
Fetch ==
    /\ pc = "fetch"
    /\ \E price \in PriceOutcomes, resp \in AVResponses, stmts \in StatementOutcomes :
          LET p == fetch_stock_data(price)
              sel == select_provider(widgets.alpha_vantage_key, resp)
              f == fetch_fundamental_data(stmts)
          IN  /\ stock_df' = p.df
              /\ error' = p.err
              /\ av_response' = IF sel.contacted THEN resp ELSE NoResponse
              /\ use_av' = sel.use_av
              /\ av_income' = sel.av_income
              /\ av_error' = sel.av_error
              /\ av_attempts' = av_attempts + sel.requests
              /\ session' = IF sel.use_av
                            THEN [session EXCEPT !.av_calls_today = @ + 1]
                            ELSE session
              /\ ui' = IF sel.use_av THEN Append(ui, "success: Alpha Vantage quarters")
                       ELSE IF HasKey(widgets.alpha_vantage_key)
                       THEN Append(ui, "warning: Alpha Vantage failed. Using Yahoo Finance fallback")
                       ELSE ui
              /\ IF ~sel.use_av
                 THEN /\ fund_data' = f.data
                      /\ fund_error' = f.err
                      /\ stmt_fetches' = stmt_fetches + 1
                 ELSE UNCHANGED <<fund_data, fund_error, stmt_fetches>>
    /\ pc' = "fetched"
    /\ UNCHANGED <<runs, store, widgets, tech_scores, fund_scores, fund_details,
                   fund_backing, remarks_scores, summary, raised>>
    /\ UNCHANGED callVars

\* lines 702-704: st.error(error); st.stop()
StopOnError ==
    /\ pc = "fetched"
    /\ error # None
    /\ ui' = Append(ui, "error: " \o error.s)
    /\ pc' = "stopped"
    /\ UNCHANGED <<runs, session, store, raised>>
    /\ UNCHANGED locals
    /\ UNCHANGED callVars

\* `if ma_50 and ma_150 and ma_200`: None and 0 are false
Truthy(x) == x # None /\ Ne0(x)

\* lines 740-761: the stage score of the run
stage_score(df) ==
    IF Len(df) >= 200
    THEN LET current_price == Num(df[Len(df)].Close)
             ma_50 == calc_ma(df, 50)
             ma_150 == calc_ma(df, 150)
             ma_200 == calc_ma(df, 200)
         IN  IF Truthy(ma_50) /\ Truthy(ma_150) /\ Truthy(ma_200)
             THEN calculate_stage(current_price, ma_50, ma_150, ma_200).score
             ELSE 0
    ELSE 0

\* lines 783-791
pulse_score(market_pulse) ==
    IF market_pulse = "Green - Acceleration" THEN 2
    ELSE IF market_pulse = "Grey Strong - Accumulation" THEN 1
    ELSE 0

\* a variant whose threshold includes 50
atr_score_Ge50(atr_percentile) == IF atr_percentile >= 50 THEN 2 ELSE 0

\* lines 816-821
atr_score(atr_percentile) == IF atr_percentile > 50 THEN 2 ELSE 0

\* lines 740-761 and 898-900: what the detectors make of each price history
\* (the same history always gives the same result)
PriceSignals ==
    [i \in 1..Len(PriceHistories) |->
        LET df == PriceHistories[i]
            found == detect_key_bars(df)
        IN  [stage2 |-> stage_score(df),
             recent_key_bar |-> found,
             key_bar |-> calculate_key_bar_score(df, found)]]

\* lines 732-914: the technical tab
TechnicalTab ==
    /\ pc = "fetched"
    /\ error = None
    /\ LET signals == PriceSignals[stock_df]
           s1 == write_through([session |-> session, store |-> store],
                               "market_pulse", widgets.market_pulse)
           s2 == write_through(s1, "atr_percentile", widgets.atr_percentile)
           s3 == write_through(s2, "accumulation_distribution",
                               widgets.accumulation_distribution)
           s4 == write_through(s3, "insider_activity", widgets.insider_activity)
       IN  /\ session' = s4.session
           /\ store' = s4.store
           /\ tech_scores' =
                 [stage2 |-> signals.stage2,
                  market_pulse |-> pulse_score(widgets.market_pulse),
                  atr_percentile |-> atr_score(widgets.atr_percentile),
                  accumulation_distribution |-> 2 * widgets.accumulation_distribution,
                  insider_activity |-> 2 * widgets.insider_activity,
                  key_bar |-> signals.key_bar]
           /\ ui' = IF signals.recent_key_bar.kb = 0
                    THEN Append(ui, "warning: No Key Bar detected in last 10 trading days")
                    ELSE Append(ui, "success: Recent Key Bar found")
    /\ pc' = "tech"
    /\ UNCHANGED <<runs, widgets, stock_df, error, av_response, use_av, av_income, av_error, fund_data,
                   fund_error, av_attempts, stmt_fetches, fund_scores, fund_details,
                   fund_backing, remarks_scores, summary, raised>>
    /\ UNCHANGED callVars

\* lines 986-1005: the return-on-equity lookup of the secondary path
av_roe_lookup(r, lookup) ==
    IF lookup.kind = "exception"
    THEN [scores |-> r.scores,
          details |-> ("roe" :> None) @@ ("roe_source" :> "Error") @@ r.details]
    ELSE LET roe_ttm == lookup.returnOnEquity
         IN  IF roe_ttm # None
             THEN LET roe_pct == IF Gt(Num(1), roe_ttm) THEN Mul(roe_ttm, Num(100))
                                 ELSE roe_ttm
                  IN  [scores |-> IF Ge(roe_pct, Num(15))
                                  THEN [r.scores EXCEPT !.roe = 2] ELSE r.scores,
                       details |-> ("roe" :> roe_pct)
                                   @@ ("roe_source" :> "Yahoo Finance (TTM)") @@ r.details]
             ELSE [scores |-> r.scores,
                   details |-> ("roe" :> None) @@ ("roe_source" :> "Not available")
                               @@ r.details]

AllBackedBy(src) == [sales_growth |-> src, gross_margin |-> src, earnings |-> src,
                     rule_of_40 |-> src]

\* lines 978-1082: the fundamental tab
FundamentalTab ==
    /\ pc = "tech"
    /\ IF use_av
       THEN LET r == calculate_alpha_vantage_fundamentals(av_income.v)
            IN  IF r.exc
                THEN /\ raised' = TRUE
                     /\ pc' = "crashed"
                     /\ ui' = Append(ui, "info: Using Alpha Vantage for 4 indicators")
                     /\ UNCHANGED <<fund_scores, fund_details, fund_backing, fund_error>>
                ELSE \E lookup \in ROELookups :
                        LET q == av_roe_lookup(r, lookup)
                        IN  /\ fund_scores' = q.scores
                            /\ fund_details' = q.details
                            /\ fund_backing' = AllBackedBy("Alpha Vantage")
                            /\ fund_error' = None
                            /\ ui' = Append(ui, "info: Using Alpha Vantage for 4 indicators")
                            /\ pc' = "fund"
                            /\ UNCHANGED raised
       ELSE IF fund_error # None
       THEN /\ ui' = Append(ui, "error: " \o fund_error.s)
            /\ fund_scores' = ZeroScores
            /\ fund_details' = NoDetails
            /\ fund_backing' = AllBackedBy("none")
            /\ pc' = "fund"
            /\ UNCHANGED <<raised, fund_error>>
       ELSE LET r == calculate_fundamental_scores(fund_data)
            IN  /\ fund_scores' = r.scores
                /\ fund_details' = r.details
                /\ fund_backing' = AllBackedBy("Yahoo Finance")
                /\ pc' = "fund"
                /\ UNCHANGED <<raised, fund_error, ui>>
    /\ UNCHANGED <<runs, session, store, widgets, stock_df, error, av_response, use_av, av_income,
                   av_error, fund_data, av_attempts, stmt_fetches, tech_scores,
                   remarks_scores, summary>>
    /\ UNCHANGED callVars

\* lines 1085-1152: the remarks tab
RemarksTab ==
    /\ pc = "fund"
    /\ LET s1 == write_through([session |-> session, store |-> store],
                               "top_rated_group", widgets.top_rated = "Yes")
           s2 == write_through(s1, "new_development", widgets.new_dev = "Yes")
       IN  /\ session' = s2.session
           /\ store' = s2.store
    /\ remarks_scores' = [top_rated_group |-> IF widgets.top_rated = "Yes" THEN 2 ELSE 0,
                          new_development |-> IF widgets.new_dev = "Yes" THEN 2 ELSE 0]
    /\ pc' = "remarks"
    /\ UNCHANGED <<runs, widgets, stock_df, error, av_response, use_av, av_income, av_error, fund_data,
                   fund_error, av_attempts, stmt_fetches, tech_scores, fund_scores,
                   fund_details, fund_backing, summary, ui, raised>>
    /\ UNCHANGED callVars

\* sum(tech_scores.values()), sum(fund_scores.values()), sum(remarks_scores.values())
total_tech_score(s) ==
    s.stage2 + s.market_pulse + s.atr_percentile + s.accumulation_distribution
        + s.insider_activity + s.key_bar
total_fund_score(s) == s.sales_growth + s.gross_margin + s.earnings + s.rule_of_40 + s.roe
total_remarks_score(s) == s.top_rated_group + s.new_development

\* total_score without the remarks
total_score_NoRemarks(tech, fund, remarks) == tech + fund

\* line 1158
total_score(tech, fund, remarks) == tech + fund + remarks

\* line 1183: (total_score / max_score) * 100, total_score in half points
percentage_of(total) == Mul(Div(Rat(total, 2), Num(13)), Num(100))

\* rating with the Excellent band starting at 70
rating_of_From70(percentage) ==
    IF Ge(percentage, Num(70)) THEN "Excellent"
    ELSE IF Ge(percentage, Num(60)) THEN "Good"
    ELSE IF Ge(percentage, Num(45)) THEN "Average"
    ELSE IF Ge(percentage, Num(30)) THEN "Below Average"
    ELSE "Poor"

\* lines 1187-1196
rating_of(percentage) ==
    IF Ge(percentage, Num(75)) THEN "Excellent"
    ELSE IF Ge(percentage, Num(60)) THEN "Good"
    ELSE IF Ge(percentage, Num(45)) THEN "Average"
    ELSE IF Ge(percentage, Num(30)) THEN "Below Average"
    ELSE "Poor"

\* lines 1154-1198: the total score summary
TotalSummary ==
    /\ pc = "remarks"
    /\ LET total == total_score(total_tech_score(tech_scores),
                                total_fund_score(fund_scores),
                                total_remarks_score(remarks_scores))
           percentage == percentage_of(total)
       IN  summary' = [total_score |-> total, percentage |-> percentage,
                       rating |-> rating_of(percentage)]
    /\ pc' = "done"
    /\ UNCHANGED <<runs, session, store, widgets, stock_df, error, av_response, use_av, av_income,
                   av_error, fund_data, fund_error, av_attempts, stmt_fetches,
                   tech_scores, fund_scores, fund_details, fund_backing,
                   remarks_scores, ui, raised>>
    /\ UNCHANGED callVars

\* the next interaction starts the script again; st.session_state and the
\* store survive, everything else starts afresh
Rerun ==
    /\ pc \in {"done", "stopped", "crashed", "idle"}
    /\ runs < MaxRuns
    /\ runs' = runs + 1
    /\ pc' = "start"
    /\ widgets' = NoDetails /\ stock_df' = 0 /\ error' = None
    /\ av_response' = NoResponse
    /\ use_av' = FALSE /\ av_income' = None /\ av_error' = None
    /\ fund_data' = None /\ fund_error' = None /\ av_attempts' = 0 /\ stmt_fetches' = 0
    /\ tech_scores' = NoDetails /\ fund_scores' = NoDetails /\ fund_details' = NoDetails
    /\ fund_backing' = NoDetails /\ remarks_scores' = NoDetails /\ summary' = None
    /\ ui' = <<>> /\ raised' = FALSE
    /\ UNCHANGED <<session, store>>
    /\ UNCHANGED callVars

RunInit ==
    /\ pc = "start" /\ runs = 1
    /\ store \in InitialStores
    /\ session = InitialSession(store)
    /\ widgets = NoDetails /\ stock_df = 0 /\ error = None
    /\ av_response = NoResponse
    /\ use_av = FALSE /\ av_income = None /\ av_error = None
    /\ fund_data = None /\ fund_error = None /\ av_attempts = 0 /\ stmt_fetches = 0
    /\ tech_scores = NoDetails /\ fund_scores = NoDetails /\ fund_details = NoDetails
    /\ fund_backing = NoDetails /\ remarks_scores = NoDetails /\ summary = None
    /\ ui = <<>> /\ raised = FALSE

----------------------------------------------------------------------------
(* Direct calls of the growth calculator and the two fundamental scorers *)

NoCall == [fn |-> "none", arg |-> <<>>]

CallGrowth ==
    /\ call = NoCall
    /\ \E values \in SeriesInputs :
          /\ call' = [fn |-> "check_growth_acceleration", arg |-> values]
          /\ ret' = check_growth_acceleration(Take(values, 8))
    /\ UNCHANGED runVars

CallYahooScorer ==
    /\ call = NoCall
    /\ \E fd \in YahooInputs :
          /\ call' = [fn |-> "calculate_fundamental_scores", arg |-> fd]
          /\ ret' = calculate_fundamental_scores(fd)
    /\ UNCHANGED runVars

CallAVScorer ==
    /\ call = NoCall
    /\ \E income_data \in AVInputs :
          /\ call' = [fn |-> "calculate_alpha_vantage_fundamentals", arg |-> income_data]
          /\ ret' = calculate_alpha_vantage_fundamentals(income_data)
    /\ UNCHANGED runVars

\* yahoo_stock.info of the return-on-equity lookup: the ratio missing, below,
\* at and above 15%, negative, and 1 or more (100% or more)
RoeLookupInputs ==
    ROELookups \cup
    {[kind |-> "ok", returnOnEquity |-> r] :
        r \in {Rat(-1, 2), Rat(14, 100), Rat(15, 100), Rat(99, 100), Num(1), Rat(3, 2),
               Num(15), Num(20)}}

\* lines 986-1005 applied to the scores the secondary scorer returned
CallRoeLookup ==
    /\ call = NoCall
    /\ \E lookup \in RoeLookupInputs :
          /\ call' = [fn |-> "roe_lookup", arg |-> lookup]
          /\ ret' = av_roe_lookup([scores |-> ZeroScores, details |-> NoDetails], lookup)
    /\ UNCHANGED runVars

StageMax == 4          \* prices and moving averages are 1..StageMax

\* what calculate_stage may be handed: a number, NaN, None, a non-numeric value
StageInputs == {Num(x) : x \in 1..StageMax} \cup {NaN, None, Bad}

CallStage ==
    /\ call = NoCall
    /\ \E price \in StageInputs, ma50 \in StageInputs, ma150 \in StageInputs,
          ma200 \in StageInputs :
          /\ call' = [fn |-> "calculate_stage", arg |-> <<price, ma50, ma150, ma200>>]
          /\ ret' = calculate_stage(price, ma50, ma150, ma200)
    /\ UNCHANGED runVars

\* the bars placed into a flat history at price 200 and volume 100:
\* two key bars (closing at 208 and at 200), a falling key bar, bars that miss
\* one condition at its boundary (volume, body of exactly 1.5%, high equal to
\* the previous highs), and quiet bars at 210 and 211
BarKinds ==
    { Bar(200, 210, 200, 208, 300),
      Bar(196, 210, 196, 200, 300),
      Bar(205, 206, 190, 195, 300),
      Bar(200, 210, 200, 208, 100),
      Bar(200, 210, 200, 203, 300),
      Bar(200, 200, 190, 192, 300),
      Bar(210, 210, 210, 210, 100),
      Bar(211, 211, 211, 211, 100) }

\* history lengths, and how far from the last bar the bars are placed
KeyBarLengths == {29, 30, 34, 41}
KeyBarOffsets == {0, 1, 4, 9, 10, 12}

Place(df, offset, bar) == [df EXCEPT ![Len(df) - offset] = bar]

\* flat histories with none, one or two of the bars placed
KeyBarInputs ==
    UNION { {Flat(len, 200)}
            \cup {Place(Flat(len, 200), o, b) : o \in KeyBarOffsets, b \in BarKinds}
            \cup {Place(Place(Flat(len, 200), o[1], b[1]), o[2], b[2]) :
                     o \in {x \in KeyBarOffsets \X KeyBarOffsets : x[1] > x[2]},
                     b \in BarKinds \X BarKinds}
          : len \in KeyBarLengths }

\* detect_key_bars(df) called on its own
CallDetectKeyBars ==
    /\ call = NoCall
    /\ \E df \in KeyBarInputs :
          /\ call' = [fn |-> "detect_key_bars", arg |-> df]
          /\ ret' = detect_key_bars(df)
    /\ UNCHANGED runVars

\* calculate_key_bar_score(df_with_kb, recent_kb) called on its own: on what
\* detect_key_bars returns, and on the bar before the last as the key bar
CallKeyBarScore ==
    /\ call = NoCall
    /\ \E df \in KeyBarInputs :
       \E found \in {detect_key_bars(df), [ok |-> TRUE, kb |-> Len(df) - 1]} :
          /\ call' = [fn |-> "calculate_key_bar_score", arg |-> [df |-> df, found |-> found]]
          /\ ret' = calculate_key_bar_score(df, found)
    /\ UNCHANGED runVars

CallInit == call = NoCall /\ ret = None

Init == RunInit /\ CallInit

Next ==
    \/ Sidebar
    \/ Fetch
    \/ StopOnError
    \/ TechnicalTab
    \/ FundamentalTab
    \/ RemarksTab
    \/ TotalSummary
    \/ Rerun

Spec == Init /\ [][Next]_vars


ScorersNext == CallGrowth \/ CallYahooScorer \/ CallAVScorer \/ CallRoeLookup

SpecScorers == Init /\ [][ScorersNext]_vars

StageNext == CallStage

SpecStage == Init /\ [][StageNext]_vars

DetectorsNext == CallDetectKeyBars \/ CallKeyBarScore

SpecDetectors == Init /\ [][DetectorsNext]_vars

----------------------------------------------------------------------------
(* What the claims say about the fundamental scorers, stated on the raw     *)
(* input of a call in integer arithmetic.                                   *)

IsYahooCall == call.fn = "calculate_fundamental_scores"
IsAVCall == call.fn = "calculate_alpha_vantage_fundamentals"
IsGrowthCall == call.fn = "check_growth_acceleration"
Returned == (IsYahooCall \/ IsAVCall) /\ ~ret.exc

\* the quarterly series of `item` that the called scorer reads (at most 8)
YahooSeries(item) ==
    IF item \in DOMAIN call.arg.income THEN Take(call.arg.income[item], 8) ELSE <<>>

AVField(item) ==
    CASE item = "Total Revenue" -> "totalRevenue"
      [] item = "Gross Profit" -> "grossProfit"
      [] OTHER -> "netIncome"

\* a secondary-provider field that stands for "no value"
AVNull(x) == x.k = "absent" \/ x.s \in {<<>>, <<"N", "o", "n", "e">>}
\* ... and one that is neither a number nor "no value"
AVMalformed(x) == ~AVNull(x) /\ ~int(x.s).ok

\* quarter i of the series: is there a number, and which
CellDefined(item, i) ==
    IF IsAVCall
    THEN i < Len(call.arg) /\ ~AVNull(At(call.arg, i)[AVField(item)])
    ELSE i < Len(YahooSeries(item)) /\ At(YahooSeries(item), i).k = "num"

CellValue(item, i) ==
    IF IsAVCall THEN int(At(call.arg, i)[AVField(item)].s).v
    ELSE At(YahooSeries(item), i).n

\* the value a year before quarter i is 0 or null
PriorZeroOrNull(item, i) ==
    ~CellDefined(item, i + 4) \/ CellValue(item, i + 4) = 0

\* the scorer has a YoY value for quarter i: the secondary scorer needs 8
\* reports and a non-zero current value, the primary one a present current value
YoYDefined(item, i) ==
    /\ CellDefined(item, i) /\ ~PriorZeroOrNull(item, i)
    /\ IsAVCall => Len(call.arg) >= 8 /\ CellValue(item, i) # 0

\* YoY of quarter i > t percent
YoYAbove(item, i, t) ==
    /\ YoYDefined(item, i)
    /\ (CellValue(item, i) - CellValue(item, i + 4)) * 100
           > t * AbsInt(CellValue(item, i + 4))

\* latest YoY > previous YoY, both non-null
Accelerating(item) ==
    /\ YoYDefined(item, 0) /\ YoYDefined(item, 1)
    /\ (CellValue(item, 0) - CellValue(item, 4)) * AbsInt(CellValue(item, 5))
           > (CellValue(item, 1) - CellValue(item, 5)) * AbsInt(CellValue(item, 4))

B2N(b) == IF b THEN 1 ELSE 0

\* C1 as stated: for every input to either fundamental scorer the
\* sales-growth sub-score is one of 0, 0.5, 1.0 and equals 1.0 if and only
\* if the latest YoY revenue growth is greater than 30%.
C1_SalesOneIffAbove30 ==
    Returned =>
        /\ ret.scores.sales_growth \in {0, 1, 2}
        /\ ret.scores.sales_growth = 2 <=> YoYAbove("Total Revenue", 0, 30)

\* C1 amended: the sales-growth sub-score is one of 0, 0.5, 1.0; a latest
\* YoY above 30% gives 1.0 whatever the acceleration result; and the score
\* is 1.0 exactly when the latest YoY is above 30%, or is above 15% and
\* above the previous YoY.
C1_SalesOneIffAbove30OrBoth ==
    Returned =>
        /\ ret.scores.sales_growth \in {0, 1, 2}
        /\ YoYAbove("Total Revenue", 0, 30) => ret.scores.sales_growth = 2
        /\ ret.scores.sales_growth = 2 <=>
              \/ YoYAbove("Total Revenue", 0, 30)
              \/ YoYAbove("Total Revenue", 0, 15) /\ Accelerating("Total Revenue")

\* a latest YoY above 30% without acceleration, scored 1.0 by the secondary scorer
C1_Witness ==
    /\ IsAVCall /\ ~ret.exc
    /\ YoYAbove("Total Revenue", 0, 30) /\ ~Accelerating("Total Revenue")
    /\ ret.scores.sales_growth = 2

IsScenario ==
    \/ IsYahooCall /\ call.arg = YahooScenario
    \/ IsAVCall /\ call.arg = AVScenario

\* C2: the sales-growth score is 1.0 when the latest YoY is non-null and
\* above 30, otherwise 0.5 for each of (a) latest YoY > previous YoY, both
\* non-null, and (b) latest YoY > 15, and 0 when the latest YoY is null; for
\* the revenue series [120,100,90,80,110,95,85,75] acceleration is true and
\* the score is 0.5.
C2_SalesGrowthRule ==
    Returned =>
        /\ ret.scores.sales_growth =
              IF ~YoYDefined("Total Revenue", 0) THEN 0
              ELSE IF YoYAbove("Total Revenue", 0, 30) THEN 2
              ELSE B2N(Accelerating("Total Revenue")) + B2N(YoYAbove("Total Revenue", 0, 15))
        /\ IsScenario =>
              /\ ret.scores.sales_growth = 1
              /\ Gt(ret.details["sales_growth"][1], ret.details["sales_growth"][2])
              /\ ret.details["sales_growth"][1] = Rat(1000, 110)
              /\ ret.details["sales_growth"][2] = Rat(500, 95)

\* the scenario series scored by the primary scorer
C2_Witness ==
    /\ IsYahooCall /\ call.arg = YahooScenario
    /\ ret.scores.sales_growth = 1

\* C3: for every quarterly series with fewer than 5 values the growth
\* calculator returns an empty growth series with acceleration false, and
\* the sub-scores that depend on growth (sales growth, earnings growth,
\* Rule of 40) are 0.
C3_ShortSeriesScoreZero ==
    /\ IsGrowthCall /\ Len(call.arg) < 5 =>
          ret = [accelerating |-> FALSE, growth_rates |-> <<>>]
    /\ IsYahooCall /\ Len(YahooSeries("Total Revenue")) < 5 =>
          ret.scores.sales_growth = 0 /\ ret.scores.rule_of_40 = 0
    /\ IsYahooCall /\ Len(YahooSeries("Net Income")) < 5 =>
          ret.scores.earnings = 0
    /\ IsAVCall /\ ~ret.exc /\ Len(call.arg) < 5 =>
          /\ ret.scores.sales_growth = 0 /\ ret.scores.rule_of_40 = 0
          /\ ret.scores.earnings = 0

\* the YoY list a call produced for `item`
Produced(item) ==
    IF IsGrowthCall THEN ret.growth_rates
    ELSE LET key == IF item = "Total Revenue" THEN "sales_growth" ELSE "earnings_growth"
         IN  IF key \in DOMAIN ret.details THEN ret.details[key] ELSE <<>>

\* the value a year before quarter i of the series a growth call was given
GrowthPriorZeroOrNull(i) ==
    \/ Len(call.arg) <= i + 4
    \/ At(call.arg, i + 4).k # "num"
    \/ At(call.arg, i + 4).n = 0

\* C4: at every quarter index i at which a YoY value is produced, if the
\* value four quarters earlier is 0 or null/NaN then yoy[i] is null; a
\* produced value is never an infinite or NaN number.  In
\* check_growth_acceleration and in the YoY loops of the secondary scorer.
C4_UndefinedYoYIsNull ==
    /\ IsGrowthCall =>
          \A j \in DOMAIN ret.growth_rates :
              /\ GrowthPriorZeroOrNull(j - 1) => ret.growth_rates[j] = None
              /\ ret.growth_rates[j].k \in {"none", "num"}
    /\ Returned =>
          \A item \in {"Total Revenue", "Net Income"} :
              \A j \in DOMAIN Produced(item) :
                  /\ PriorZeroOrNull(item, j - 1) => Produced(item)[j] = None
                  /\ Produced(item)[j].k \in {"none", "num"}

\* the secondary scorer ran its 8-point loop; the value a year before the
\* latest quarter is missing and that YoY is null, the next one is a number
C4_Witness ==
    /\ IsAVCall /\ ~ret.exc /\ Len(call.arg) >= 12
    /\ PriorZeroOrNull("Total Revenue", 0)
    /\ ret.details["sales_growth"][1] = None
    /\ ret.details["sales_growth"][2].k = "num"

\* the reports with every malformed field replaced by the "None" placeholder
Repaired(income_data) ==
    [i \in DOMAIN income_data |->
        [f \in DOMAIN income_data[i] |->
            IF AVMalformed(income_data[i][f]) THEN StrNone ELSE income_data[i][f]]]

\* C10: in both scorers a missing or malformed field never raises an
\* exception out of the scorer, and leaves the indicators it does not
\* affect computed as if the fault were absent; for the secondary provider
\* any non-numeric string counts, not only "None".
C10_MalformedFieldIsolated ==
    /\ IsYahooCall => ~ret.exc
    /\ IsAVCall =>
          /\ ~ret.exc
          /\ ret.scores = calculate_alpha_vantage_fundamentals(Repaired(call.arg)).scores

----------------------------------------------------------------------------
(* What the claims say about a script run *)

Completed == pc = "done"
AfterFetch == pc \in {"fetched", "stopped", "tech", "fund", "remarks", "done", "crashed"}
Scored == pc \in {"fund", "remarks", "done"}

HalfPoints == {0, 1, 2}      \* 0, 0.5, 1.0
Binary == {0, 2}             \* 0, 1.0

TechSum == tech_scores.stage2 + tech_scores.market_pulse + tech_scores.atr_percentile
               + tech_scores.accumulation_distribution + tech_scores.insider_activity
               + tech_scores.key_bar
FundSum == fund_scores.sales_growth + fund_scores.gross_margin + fund_scores.earnings
               + fund_scores.rule_of_40 + fund_scores.roe
RemarksSum == remarks_scores.top_rated_group + remarks_scores.new_development

\* C5: in every completed run the total is the technical plus the fundamental
\* plus the remarks score, every sub-score is in its value set (so the three
\* sums are within [0,6], [0,5] and [0,2]), and the percentage is total/13*100
\* (total/26*100 in half points), which lies in [0,100].
C5_TotalIsSumAndPercentage ==
    Completed =>
        /\ tech_scores.stage2 \in HalfPoints
        /\ tech_scores.market_pulse \in HalfPoints
        /\ tech_scores.atr_percentile \in Binary
        /\ tech_scores.accumulation_distribution \in Binary
        /\ tech_scores.insider_activity \in Binary
        /\ tech_scores.key_bar \in HalfPoints
        /\ \A k \in {"sales_growth", "gross_margin", "earnings", "rule_of_40", "roe"} :
              fund_scores[k] \in HalfPoints
        /\ remarks_scores.top_rated_group \in Binary
        /\ remarks_scores.new_development \in Binary
        /\ TechSum \in 0..12 /\ FundSum \in 0..10 /\ RemarksSum \in 0..4
        /\ summary.total_score = TechSum + FundSum + RemarksSum
        /\ summary.percentage.k = "num"
        /\ summary.percentage.n * 26 = summary.total_score * 100 * summary.percentage.d
        /\ 0 <= summary.percentage.n
        /\ summary.percentage.n <= 100 * summary.percentage.d

\* a completed run in which all three categories contribute to the total
C5_Witness ==
    /\ Completed
    /\ TechSum > 0 /\ FundSum > 0 /\ RemarksSum > 0
    /\ summary.total_score = TechSum + FundSum + RemarksSum

\* the band the bands of the rating assign to a percentage n/d
Band(n, d) ==
    IF n >= 75 * d THEN "Excellent"
    ELSE IF n >= 60 * d THEN "Good"
    ELSE IF n >= 45 * d THEN "Average"
    ELSE IF n >= 30 * d THEN "Below Average"
    ELSE "Poor"

\* C6: the rating of a completed run is the band of its percentage alone:
\* >= 75 Excellent, else >= 60 Good, else >= 45 Average, else >= 30 Below
\* Average, else Poor; the total is one of 0..13 in steps of 0.5 and has
\* exactly that one band.
C6_RatingBands ==
    Completed =>
        /\ summary.total_score \in 0..26
        /\ summary.rating = Band(summary.total_score * 100, 26)
        /\ summary.rating = Band(summary.percentage.n, summary.percentage.d)

\* a completed run with total 9.5 (73.08%), just below the Excellent band
C6_Witness ==
    /\ Completed
    /\ summary.total_score = 19
    /\ summary.rating = "Good"

----------------------------------------------------------------------------
(* What the claims say about calculate_stage *)

IsStageCall == call.fn = "calculate_stage"
StageNumeric == \A i \in 1..4 : call.arg[i].k = "num"
StageFloats == \A i \in 1..4 : call.arg[i].k \in {"num", "nan"}
P == call.arg[1].n
M50 == call.arg[2].n
M150 == call.arg[3].n
M200 == call.arg[4].n
IsS2 == P > M50 /\ M50 > M150 /\ M150 > M200
IsS1 == P > M50 /\ M50 > M150 /\ M150 < M200
IsS3 == P > M50 /\ M50 < M150 /\ M150 > M200

\* C7: calculate_stage returns for every input exactly one of S2 (1.0, when
\* P > M50 > M150 > M200), S1 (0.5, when P > M50 > M150 and M150 < M200),
\* S3 Strong (0.5, when P > M50, M50 < M150 and M150 > M200), Other (0.0,
\* every other input of floats, ties and NaN included) or Error (0.0, when an
\* input is None or not a number); the three conditions exclude each other.
C7_StageTotal ==
    IsStageCall =>
        /\ ret \in {[stage |-> "S2", score |-> 2], [stage |-> "S1", score |-> 1],
                    [stage |-> "S3 Strong", score |-> 1], [stage |-> "Other", score |-> 0],
                    [stage |-> "Error", score |-> 0]}
        /\ ret.stage = "Error" <=> ~StageFloats
        /\ StageFloats /\ ~StageNumeric => ret.stage = "Other"
        /\ StageNumeric =>
              /\ ret.stage = "S2" <=> IsS2
              /\ ret.stage = "S1" <=> IsS1
              /\ ret.stage = "S3 Strong" <=> IsS3
              /\ ret.stage = "Other" <=> ~(IsS2 \/ IsS1 \/ IsS3)
              /\ ~(IsS2 /\ IsS1) /\ ~(IsS2 /\ IsS3) /\ ~(IsS1 /\ IsS3)

\* the tie M150 = M200 under P > M50 > M150 is Other
C7_Witness ==
    /\ IsStageCall /\ StageNumeric
    /\ P > M50 /\ M50 > M150 /\ M150 = M200
    /\ ret = [stage |-> "Other", score |-> 0]

----------------------------------------------------------------------------
(* What the claims say about the provider selection *)

KeyPresent == HasKey(widgets.alpha_vantage_key)
InJson(key) == key \in DOMAIN av_response.json

\* the failures of the secondary attempt
SecondaryFailed ==
    /\ av_response.kind # "none"
    /\ \/ av_response.kind = "exception"
       \/ av_response.status # 200
       \/ InJson("Error Message") \/ InJson("Note") \/ InJson("Information")
       \/ ~InJson("quarterlyReports")
       \/ av_response.json["quarterlyReports"].v = <<>>

IsError(m) == m \in {"error: Error fetching data", "error: No price data available",
                     "error: Error fetching fundamentals"}

\* C8: with a non-blank credential the secondary provider is asked exactly
\* once in the run; when that attempt fails (exception, status other than
\* 200, a body with Error Message, Note or Information even if it also has
\* quarterlyReports, a body without quarterlyReports, an empty list) the
\* primary statements are fetched and back the scores, nothing is raised, the
\* fallback warning is shown and the failure itself adds no error to the run.
C8_FallbackToPrimary ==
    AfterFetch =>
        /\ KeyPresent => av_attempts = 1 /\ av_response.kind # "none"
        /\ KeyPresent /\ SecondaryFailed =>
              /\ ~use_av
              /\ stmt_fetches = 1
              /\ ~raised /\ pc # "crashed"
              /\ \E i \in 1..Len(ui) :
                    ui[i] = "warning: Alpha Vantage failed. Using Yahoo Finance fallback"
              /\ \A i \in 1..Len(ui) :
                    IsError(ui[i]) =>
                       \/ error # None /\ ui[i] = "error: " \o error.s
                       \/ fund_error # None /\ ui[i] = "error: " \o fund_error.s
              /\ Scored /\ fund_error = None =>
                    fund_backing = AllBackedBy("Yahoo Finance")
              /\ pc = "fund" /\ fund_error = None =>
                    fund_scores = calculate_fundamental_scores(fund_data).scores
              /\ Completed /\ fund_error = None =>
                    \A i \in 1..Len(ui) : ~IsError(ui[i])

\* a completed run whose secondary answer carried a rate-limit Note next to
\* quarterlyReports: the primary provider backs the scores
C8_Witness ==
    /\ Completed
    /\ KeyPresent
    /\ InJson("Note") /\ InJson("quarterlyReports")
    /\ ~use_av /\ stmt_fetches = 1 /\ av_attempts = 1
    /\ fund_backing = AllBackedBy("Yahoo Finance")

FourOf(s) == [k \in {"sales_growth", "gross_margin", "earnings", "rule_of_40"} |-> s[k]]

\* C9: the four statement sub-scores of a run all come from
\* calculate_alpha_vantage_fundamentals when the secondary provider was
\* selected and all from calculate_fundamental_scores otherwise (all zero
\* when the primary fetch failed), never a mix; the primary statements are
\* fetched only when the secondary was not selected; with a blank or
\* missing credential the secondary provider is not contacted.
C9_OneProviderBacksScores ==
    /\ AfterFetch =>
          /\ stmt_fetches = (IF use_av THEN 0 ELSE 1)
          /\ use_av => fund_data = None /\ fund_error = None
          /\ ~KeyPresent => av_attempts = 0 /\ av_response.kind = "none" /\ ~use_av
    /\ Scored =>
          fund_backing = AllBackedBy(IF use_av THEN "Alpha Vantage"
                                     ELSE IF fund_error = None THEN "Yahoo Finance"
                                     ELSE "none")
    /\ pc = "fund" =>
          FourOf(fund_scores) =
             FourOf(IF use_av THEN calculate_alpha_vantage_fundamentals(av_income.v).scores
                    ELSE IF fund_error = None
                    THEN calculate_fundamental_scores(fund_data).scores
                    ELSE ZeroScores)

\* a completed run on the secondary provider with a nonzero statement score,
\* and no primary statements fetched
C9_Witness ==
    /\ Completed
    /\ use_av /\ stmt_fetches = 0 /\ av_attempts = 1
    /\ fund_backing = AllBackedBy("Alpha Vantage")
    /\ fund_scores.sales_growth > 0

----------------------------------------------------------------------------
(* What the claims say about a run whose fetches fail *)

NothingScored ==
    /\ DOMAIN tech_scores = {} /\ DOMAIN fund_scores = {} /\ DOMAIN remarks_scores = {}
    /\ summary = None

\* C11: when the price fetch raises or returns no bars the run has an error,
\* ends at st.stop() with that error shown last, and computes no technical,
\* fundamental or remarks score, no total and no rating.
C11_PriceFailureAborts ==
    /\ AfterFetch /\ stock_df = 0 => error # None
    /\ AfterFetch /\ error # None =>
          /\ stock_df = 0
          /\ pc \in {"fetched", "stopped"}
          /\ NothingScored
          /\ ~raised
    /\ pc = "stopped" =>
          /\ error # None
          /\ ui[Len(ui)] = "error: " \o error.s

\* a run stopped because the provider returned no bars
C11_Witness ==
    /\ pc = "stopped"
    /\ error = Msg("No price data available")
    /\ NothingScored
    /\ ui[Len(ui)] = "error: No price data available"

\* C12: when the fetch of the primary statements fails the run is fatal: the
\* error is shown and no total score and no rating is produced.
C12_PrimaryFailureFatal ==
    AfterFetch /\ fund_error # None =>
        /\ summary = None
        /\ pc # "done"

----------------------------------------------------------------------------
(* What the claims say about return on equity *)

IsRoeLookup == call.fn = "roe_lookup"

\* r * 100 >= 15 for the ratio r = n/d
RatioAtLeast15(r) == r.n * 100 >= 15 * r.d

YahooRatio == call.arg.info.returnOnEquity

\* the primary scorer's derived ROE of the latest quarter is defined
DerivedDefined ==
    /\ "Net Income" \in DOMAIN call.arg.income
    /\ "Stockholders Equity" \in DOMAIN call.arg.balance
    /\ Len(call.arg.income["Net Income"]) >= 1
    /\ Len(call.arg.balance["Stockholders Equity"]) >= 1
    /\ call.arg.income["Net Income"][1].k = "num"
    /\ call.arg.balance["Stockholders Equity"][1].k = "num"
    /\ call.arg.balance["Stockholders Equity"][1].n # 0

\* net_income * 4 / equity * 100 >= 15 for integer net income and equity
DerivedAtLeast15 ==
    LET ni == call.arg.income["Net Income"][1].n
        eq == call.arg.balance["Stockholders Equity"][1].n
    IN  IF eq > 0 THEN ni * 400 >= 15 * eq ELSE ni * 400 <= 15 * eq

\* the ROE rule in the primary scorer
RoeRulePrimary ==
    IsYahooCall =>
        IF YahooRatio # None
        THEN ret.scores.roe = (IF RatioAtLeast15(YahooRatio) THEN 2 ELSE 0)
        ELSE ret.scores.roe = (IF DerivedDefined /\ DerivedAtLeast15 THEN 2 ELSE 0)

\* the ROE rule on the secondary path
RoeRuleSecondary ==
    IsRoeLookup =>
        ret.scores.roe = (IF call.arg.kind = "ok" /\ call.arg.returnOnEquity # None
                             /\ RatioAtLeast15(call.arg.returnOnEquity)
                          THEN 2 ELSE 0)

\* C13: when a trailing ratio r is reported the ROE score is 1 iff r * 100 >= 15,
\* the same on the secondary and on the primary path; when none is reported
\* the primary scorer scores 1 iff the latest quarter's derived ROE
\* net_income * 4 / equity * 100 is defined and >= 15; otherwise the score is 0.
C13_RoeRule == RoeRulePrimary /\ RoeRuleSecondary

----------------------------------------------------------------------------
(* What the claims say about Rule of 40, gross margin and earnings *)

\* the YoY growth of the latest quarter against the quarter four positions earlier
GrowthDefined ==
    /\ CellDefined("Total Revenue", 0) /\ CellDefined("Total Revenue", 4)
    /\ CellValue("Total Revenue", 4) # 0

\* the gross margin of quarter i
MarginDefined(i) ==
    /\ CellDefined("Total Revenue", i) /\ CellDefined("Gross Profit", i)
    /\ CellValue("Total Revenue", i) # 0

\* growth + margin >= 40, cleared of the denominators |rev4| and rev0
GrowthPlusMarginAtLeast40 ==
    LET rev0 == CellValue("Total Revenue", 0)
        rev4 == CellValue("Total Revenue", 4)
        gp0 == CellValue("Gross Profit", 0)
    IN  (rev0 - rev4) * 100 * AbsInt(rev0) + gp0 * 100 * Sign(rev0) * AbsInt(rev4)
           >= 40 * AbsInt(rev4) * AbsInt(rev0)

\* C14: in both scorers the Rule-of-40 growth is the YoY growth of the latest
\* quarter against the quarter four positions earlier, the margin is the
\* latest quarter's gross margin percent, and the score is 1 iff growth +
\* margin >= 40 and 0 otherwise, never 0.5.
C14_RuleOf40 ==
    Returned =>
        /\ ret.scores.rule_of_40 \in {0, 2}
        /\ ret.scores.rule_of_40 = 2 <=>
              GrowthDefined /\ MarginDefined(0) /\ GrowthPlusMarginAtLeast40

\* the quarters the called scorer was given for `item`
Quarters(item) == IF IsAVCall THEN Len(call.arg) ELSE Len(YahooSeries(item))

\* margin of quarter i > margin of quarter j, both defined
MarginAbove(i, j) ==
    /\ MarginDefined(i) /\ MarginDefined(j)
    /\ CellValue("Gross Profit", i) * Sign(CellValue("Total Revenue", i))
              * AbsInt(CellValue("Total Revenue", j))
          > CellValue("Gross Profit", j) * Sign(CellValue("Total Revenue", j))
              * AbsInt(CellValue("Total Revenue", i))

\* margin of quarter i > t percent
MarginOver(i, t) ==
    /\ MarginDefined(i)
    /\ CellValue("Gross Profit", i) * 100 * Sign(CellValue("Total Revenue", i))
          > t * AbsInt(CellValue("Total Revenue", i))

\* C15: the margin of a quarter is gross_profit / revenue * 100, null when
\* the revenue is 0; the gross-margin score is 0.5 if the latest margin is
\* above the previous one (both non-null) plus 0.5 if the latest margin is
\* above 40, and 0 when the latest margin is null or fewer than 2 quarters
\* exist; a latest margin of 50% after 35% scores 1.0.
C15_GrossMarginRule ==
    Returned =>
        ret.scores.gross_margin =
           IF Quarters("Total Revenue") < 2 \/ Quarters("Gross Profit") < 2
                 \/ ~MarginDefined(0)
           THEN 0
           ELSE B2N(MarginAbove(0, 1)) + B2N(MarginOver(0, 40))

\* C16: the earnings-growth score is always the sum of two half points: one
\* when the latest net-income YoY growth exceeds the previous one (both
\* defined), one when the latest YoY growth exceeds 20; there is no branch
\* that gives the full point directly, so a latest growth above 20 or above
\* 30 without acceleration scores exactly one half, and an undefined latest
\* growth scores 0.
C16_EarningsAdditive ==
    Returned =>
        ret.scores.earnings =
            IF ~YoYDefined("Net Income", 0) THEN 0
            ELSE B2N(Accelerating("Net Income"))
                 + B2N(YoYAbove("Net Income", 0, 20))

\* a returned call whose latest growth is above 30, not accelerating, half point
C16_Witness ==
    /\ Returned
    /\ YoYAbove("Net Income", 0, 30)
    /\ ~Accelerating("Net Income")
    /\ ret.scores.earnings = 1

----------------------------------------------------------------------------
(* What the claims say about the technical detectors and the technical score *)

AfterTech == pc \in {"tech", "fund", "remarks", "done", "crashed"}
Bars == IF stock_df = 0 THEN 0 ELSE Len(PriceHistories[stock_df])
Shown(line) == \E i \in DOMAIN ui : ui[i] = line
TechNames == {"stage2", "market_pulse", "atr_percentile", "accumulation_distribution",
              "insider_activity", "key_bar"}
FundNames == {"sales_growth", "gross_margin", "earnings", "rule_of_40", "roe"}
RemarksNames == {"top_rated_group", "new_development"}

\* C17: a short price history is handled per detector and raises nothing:
\* with fewer than 30 bars no key bar is reported and the key-bar score is 0;
\* with fewer than 200 bars the stage score is 0; the technical tab never
\* raises, all six technical components are still present, and a completed
\* run still has its fundamental and remarks scores and the total is the sum
\* of the three.
C17_ShortHistoryIsolated ==
    /\ AfterTech /\ Bars < 30 =>
          /\ tech_scores.key_bar = 0
          /\ Shown("warning: No Key Bar detected in last 10 trading days")
    /\ AfterTech /\ Bars < 200 => tech_scores.stage2 = 0
    /\ AfterTech => DOMAIN tech_scores = TechNames
    /\ pc = "tech" => ~raised
    /\ Completed /\ Bars < 200 =>
          /\ DOMAIN fund_scores = FundNames
          /\ DOMAIN remarks_scores = RemarksNames
          /\ summary.total_score = TechSum + FundSum + RemarksSum

\* a completed run on a one-bar history with points from all three tabs
C17_Witness ==
    /\ Completed /\ Bars = 1
    /\ tech_scores.stage2 = 0 /\ tech_scores.key_bar = 0
    /\ TechSum > 0 /\ FundSum > 0 /\ RemarksSum > 0
    /\ summary.total_score = TechSum + FundSum + RemarksSum

IsDetectCall == call.fn = "detect_key_bars"
IsKeyBarScoreCall == call.fn = "calculate_key_bar_score"

\* bar i has 29 bars before it and its volume exceeds the mean of the 30
\* volumes ending at i
VolumeAboveMean(df, i) ==
    i >= 30 /\ 30 * df[i].Volume > SumCol(df, "Volume", i - 29, i)
\* |close - open| / open * 100 > 1.5
BodyAbove(df, i) == 1000 * AbsInt(df[i].Close - df[i].Open) > 15 * df[i].Open
\* the high exceeds every high of the 5 bars strictly before i
HighAbovePrevious5(df, i) ==
    i >= 6 /\ \A j \in (i - 5)..(i - 1) : df[i].High > df[j].High
Qualifies(df, i) == VolumeAboveMean(df, i) /\ BodyAbove(df, i) /\ HighAbovePrevious5(df, i)
Last10(df) == {i \in 1..Len(df) : i > Len(df) - 10}

\* C18: on a history of at least 30 bars detect_key_bars returns the latest
\* of the last 10 bars that satisfies all three conditions (volume above its
\* 30-bar trailing mean, body above 1.5% of the open, high above the highs of
\* the 5 bars before it), and no key bar exactly when none of those 10 bars
\* qualifies; a qualifying bar older than the last 10 is never returned.
C18_LatestKeyBarOfLast10 ==
    IsDetectCall /\ Len(call.arg) >= 30 =>
        LET df == call.arg
            qualifying == {i \in Last10(df) : Qualifies(df, i)}
        IN  /\ ret.ok
            /\ ret.kb = 0 <=> qualifying = {}
            /\ ret.kb # 0 => /\ ret.kb \in qualifying
                             /\ \A j \in qualifying : j <= ret.kb

\* two qualifying bars among the last 10 and one older: the latest is returned
C18_Witness ==
    /\ IsDetectCall /\ Len(call.arg) >= 30
    /\ \E i, j \in Last10(call.arg) :
          i < j /\ Qualifies(call.arg, i) /\ Qualifies(call.arg, j) /\ ret.kb = j

\* only a bar older than the last 10 qualifies: none is returned
C18_WitnessOlder ==
    /\ IsDetectCall /\ Len(call.arg) >= 30
    /\ \E i \in 1..Len(call.arg) : i \notin Last10(call.arg) /\ Qualifies(call.arg, i)
    /\ ret.ok /\ ret.kb = 0

KeyBarCurrent == call.arg.df[Len(call.arg.df)].Close
KeyBarClose == call.arg.df[call.arg.found.kb].Close
NoKeyBar == ~call.arg.found.ok \/ call.arg.found.kb = 0

\* C19: the key-bar score is 0, 0.5 or 1.0: 0 when there is no key bar, 0.5
\* when the current close is above 1.05 times the key bar's close, and 1.0
\* when it is at or below 1.05 times the key bar's close.
C19_KeyBarScore ==
    IsKeyBarScoreCall =>
        ret = IF NoKeyBar THEN 0
              ELSE IF 100 * KeyBarCurrent > 105 * KeyBarClose THEN 1
              ELSE 2

\* the current close is exactly 1.05 times the key bar's close: full score
C19_Witness ==
    /\ IsKeyBarScoreCall /\ ~NoKeyBar
    /\ 100 * KeyBarCurrent = 105 * KeyBarClose
    /\ ret = 2

\* the current close is above 1.05 times the key bar's close: half score
C19_WitnessFar ==
    /\ IsKeyBarScoreCall /\ ~NoKeyBar
    /\ 100 * KeyBarCurrent > 105 * KeyBarClose
    /\ ret = 1

\* C20: the technical score is the plain sum of exactly six components:
\* stage in {0, 0.5, 1}; market pulse 1 for Green, 0.5 for Grey Strong, 0 for
\* Grey Weak and Red; ATR percentile 1 exactly when the value is above 50;
\* accumulation/distribution and insider activity in {0, 1}; key bar in
\* {0, 0.5, 1}. All six are present once the technical tab has run, so the
\* sum is within [0, 6] (0..12 half points), and it enters the total unscaled.
C20_TechnicalScore ==
    /\ AfterTech =>
          /\ DOMAIN tech_scores = TechNames
          /\ tech_scores.stage2 \in HalfPoints
          /\ tech_scores.market_pulse =
                CASE widgets.market_pulse = "Green - Acceleration" -> 2
                  [] widgets.market_pulse = "Grey Strong - Accumulation" -> 1
                  [] widgets.market_pulse \in {"Grey Weak - Distribution",
                                               "Red - Deceleration"} -> 0
          /\ tech_scores.atr_percentile = 2 * B2N(widgets.atr_percentile > 50)
          /\ tech_scores.accumulation_distribution \in Binary
          /\ tech_scores.insider_activity \in Binary
          /\ tech_scores.key_bar \in HalfPoints
          /\ TechSum \in 0..12
    /\ Completed => summary.total_score - FundSum - RemarksSum = TechSum

\* a completed run with an ATR percentile of exactly 50 scoring 0, a Grey
\* Strong pulse scoring one half, and points from stage and key bar
C20_Witness ==
    /\ Completed
    /\ widgets.atr_percentile = 50 /\ tech_scores.atr_percentile = 0
    /\ widgets.market_pulse = "Grey Strong - Accumulation" /\ tech_scores.market_pulse = 1
    /\ tech_scores.stage2 > 0 /\ tech_scores.key_bar > 0
    /\ summary.total_score - FundSum - RemarksSum = TechSum

----------------------------------------------------------------------------
(* What the claims say about the growth calculator *)

\* the growth rate r is (cur - prior) / |prior| * 100
IsYoY(r, cur, prior) ==
    r.k = "num" /\ r.n * AbsInt(prior) = (cur - prior) * 100 * r.d

\* quarter i of the series a growth call was given is a number
GrowthCellDefined(i) == i < Len(call.arg) /\ At(call.arg, i).k = "num"

\* the offsets for which the definition has a YoY value: [0, min(n - 4, 8))
Offsets(n) == 0..(Min(n - 4, 8) - 1)

\* the YoY list `rates` follows the definition on a series of n quarters whose
\* quarter i is defined(i) with the value value(i)
FollowsDefinition(rates, n, defined(_), value(_)) ==
    n >= 5 =>
        \A i \in Offsets(n) :
            /\ i + 1 \in DOMAIN rates
            /\ IF /\ defined(i) /\ defined(i + 4)
                  /\ value(i) # 0 /\ value(i + 4) # 0
               THEN IsYoY(rates[i + 1], value(i), value(i + 4))
               ELSE rates[i + 1] = None

GrowthCallFollows ==
    LET defined(i) == GrowthCellDefined(i)
        value(i) == At(call.arg, i).n
    IN  FollowsDefinition(ret.growth_rates, Len(call.arg), defined, value)

ScorerFollows(item) ==
    LET defined(i) == CellDefined(item, i)
        value(i) == CellValue(item, i)
        n == IF IsAVCall THEN Len(call.arg) ELSE Len(YahooSeries(item))
    IN  FollowsDefinition(Produced(item), n, defined, value)

\* C21: for a most-recent-first series of n >= 5 quarters a YoY value is
\* produced for each offset i in [0, min(n - 4, 8)); it is
\* (series[i] - series[i+4]) / |series[i+4]| * 100 when both values are
\* non-null and non-zero, and null otherwise (so a zero current quarter gives
\* null, not -100, and 5 to 7 non-zero quarters give at least one non-null
\* point); in check_growth_acceleration and in both scorers.
C21_GrowthDefinition ==
    /\ IsGrowthCall => GrowthCallFollows
    /\ Returned => ScorerFollows("Total Revenue") /\ ScorerFollows("Net Income")

----------------------------------------------------------------------------
(* What the claims say about the persisted qualitative inputs *)

QualitativeKeys == {"market_pulse", "atr_percentile", "accumulation_distribution",
                    "insider_activity", "top_rated_group", "new_development"}

RunEnded == pc \in {"done", "stopped", "crashed", "idle"}

\* the value the user's selection gives to session key k in this run
Selected(k) ==
    CASE k = "top_rated_group" -> widgets.top_rated = "Yes"
      [] k = "new_development" -> widgets.new_dev = "Yes"
      [] OTHER -> widgets[k]

\* the persisted entry of key k: <<value>>, or <<>> when the store has none
StoreEntry(k) == IF k \in DOMAIN store THEN <<store[k]>> ELSE <<>>

\* a step of a run in which the user selected for k a value that differs from
\* the session value
SelectedAnew(k) == DOMAIN widgets # {} /\ Selected(k) # session[k]

\* what C22 says of one step
C22_Step ==
    /\ \A k \in QualitativeKeys :
          \* the store entry of k changes only to a newly selected value, and
          \* then the session value changes with it
          /\ StoreEntry(k)' # StoreEntry(k) =>
                /\ SelectedAnew(k)
                /\ StoreEntry(k)' = <<Selected(k)>>
                /\ session'[k] = Selected(k)
          /\ session'[k] # session[k] => StoreEntry(k)' = <<session'[k]>>
          \* when the run is over a newly selected value has been written
          /\ ~RunEnded /\ RunEnded' =>
                /\ session'[k] = Selected(k)'
                /\ k \in DOMAIN store' => store'[k] = session'[k]
    \* the step that calls the fundamental scorers writes nothing
    /\ pc = "tech" => store' = store /\ session' = session

\* C22: whenever the user selects for one qualitative input a value that
\* differs from the session value, the session value and the persisted entry
\* of that key become the new value and the persisted entries of the other
\* keys stay; selecting the same value writes nothing; no scoring function
\* writes the store; so when a run is over the store holds the latest value
\* of every changed key.
C22_SelectionsPersist == [][C22_Step]_vars

----------------------------------------------------------------------------
(* What the claims say about a short list of secondary reports *)

\* the secondary provider answered this run with a quarterlyReports list and
\* no error, rate-limit or information note
SecondaryAnswered ==
    /\ av_response.kind = "http" /\ av_response.status = 200
    /\ "quarterlyReports" \in DOMAIN av_response.json
    /\ DOMAIN av_response.json \cap {"Error Message", "Note", "Information"} = {}

\* ... and the list has 1 to 3 quarters
ShortSecondary ==
    SecondaryAnswered /\ Len(av_response.json["quarterlyReports"].v) \in 1..3

\* C23: when the secondary provider returns a non-empty quarterlyReports list
\* of only 1 to 3 quarters it is still the provider of the run, the primary
\* provider's statements are not fetched, and the sales-growth, gross-margin,
\* earnings and Rule-of-40 scores are all 0 on an empty details record from
\* the scorer (only the return-on-equity lookup adds its two entries).
C23_ShortSecondaryNoFallback ==
    AfterFetch /\ ShortSecondary =>
        /\ use_av
        /\ stmt_fetches = 0 /\ fund_data = None
        /\ pc # "crashed"
        /\ Scored =>
              /\ fund_scores.sales_growth = 0 /\ fund_scores.gross_margin = 0
              /\ fund_scores.earnings = 0 /\ fund_scores.rule_of_40 = 0
              /\ DOMAIN calculate_alpha_vantage_fundamentals(av_income.v).details = {}
              /\ DOMAIN fund_details = {"roe", "roe_source"}

\* a completed run on 3 secondary quarters: only return on equity scores
C23_Witness ==
    /\ Completed /\ ShortSecondary /\ use_av /\ stmt_fetches = 0
    /\ Len(av_income.v) = 3
    /\ fund_scores = [ZeroScores EXCEPT !.roe = 2]
    /\ summary # None

\* bar i would pass all three tests if its volume were compared with the mean
\* of the bars there are
QualifiesOnPartialWindow(df, i) ==
    /\ i < 30
    /\ i * df[i].Volume > SumCol(df, "Volume", 1, i)
    /\ BodyAbove(df, i) /\ HighAbovePrevious5(df, i)

\* C24: a bar is flagged as a key bar only if at least 29 bars precede it in
\* the series; the bars at positions 0 to 28 (1 to 29 counting from 1) are
\* never flagged whatever their volume, body and high.  So on exactly 30 bars
\* only the last bar can be the key bar, and on 30 to 38 bars fewer than 10
\* of the scanned bars can be.
C24_KeyBarNeeds29Before ==
    IsDetectCall =>
        LET df == call.arg
            eligible == {i \in Last10(df) : i - 1 >= 29}
        IN  /\ \A i \in 1..Len(df) : Is_Key_Bar(df, i) => i - 1 >= 29
            /\ ret.kb # 0 => ret.kb \in eligible
            /\ Len(df) = 30 => ret.kb \in {0, 30}
            /\ Len(df) \in 30..38 => Cardinality(eligible) = Len(df) - 29

\* 30 bars; one of the last 10 but not the last would pass on a partial
\* window, and no key bar is returned
C24_Witness ==
    /\ IsDetectCall /\ Len(call.arg) = 30
    /\ \E i \in Last10(call.arg) : QualifiesOnPartialWindow(call.arg, i)
    /\ ret.ok /\ ret.kb = 0

====
